---- MODULE Spec2Model ----
(***************************************************************************)
(* A model of builderio-textcontent-utils: the text cleaner                *)
(* (utils/textCleaner.ts) and the search over extracted content            *)
(* (utils/searchBuilderContent.ts).                                        *)
(*                                                                         *)
(* A JavaScript string is a sequence of UTF-16 code units.  A code unit is *)
(* written as a one-character TLA+ string when it is printable ASCII       *)
(* ("a", "+", " ") and as "#<decimal code>" otherwise ("#10" is the line   *)
(* feed, "#160" the no-break space, "#304" the capital I with dot above;   *)
(* the grave accent, which a TLA+ string cannot hold, is "#96").           *)
(* Positions are 0-based, as in JavaScript.                                *)
(***************************************************************************)
EXTENDS Integers, Sequences, FiniteSets, TLC

----------------------------------------------------------------------------
(* Code units *)

\* Printable ASCII, code 32 .. 126, in code order.
Ascii ==
  << " ", "!", "\"", "#", "$", "%", "&", "'", "(", ")", "*", "+", ",", "-", ".", "/",
     "0", "1", "2", "3", "4", "5", "6", "7", "8", "9", ":", ";", "<", "=", ">", "?",
     "@", "A", "B", "C", "D", "E", "F", "G", "H", "I", "J", "K", "L", "M", "N", "O",
     "P", "Q", "R", "S", "T", "U", "V", "W", "X", "Y", "Z", "[", "\\", "]", "^", "_",
     "#96", "a", "b", "c", "d", "e", "f", "g", "h", "i", "j", "k", "l", "m", "n", "o",
     "p", "q", "r", "s", "t", "u", "v", "w", "x", "y", "z", "{", "|", "}", "~" >>

\* The position of c in the tuple t, 0 when absent.
PosIn(t, c) ==
  IF \E i \in 1..Len(t) : t[i] = c
    THEN CHOOSE i \in 1..Len(t) : t[i] = c
    ELSE 0

\* String.fromCharCode(n): the code unit with code ToUint16(n).
FromCharCode(n) ==
  LET u == n % 65536
  IN IF u >= 32 /\ u <= 126 THEN Ascii[u - 31] ELSE "#" \o ToString(u)

Digits == SubSeq(Ascii, 17, 26)
UpperLetters == SubSeq(Ascii, 34, 59)
LowerLetters == SubSeq(Ascii, 66, 91)

DigitChars == { Digits[i] : i \in 1..Len(Digits) }
UpperChars == { UpperLetters[i] : i \in 1..Len(UpperLetters) }
LowerChars == { LowerLetters[i] : i \in 1..Len(LowerLetters) }
AlnumChars == DigitChars \cup UpperChars \cup LowerChars
HexDigitChars == DigitChars \cup {"a", "b", "c", "d", "e", "f", "A", "B", "C", "D", "E", "F"}
WordChars == AlnumChars \cup {"_"}

IsDigit(c) == c \in DigitChars
IsUpper(c) == c \in UpperChars
IsLower(c) == c \in LowerChars

\* The value of a hexadecimal (hence also of a decimal) digit.
DigitValue(c) ==
  IF IsDigit(c) THEN PosIn(Digits, c) - 1
  ELSE IF IsLower(c) THEN PosIn(LowerLetters, c) + 9
  ELSE PosIn(UpperLetters, c) + 9

\* \w of a regular expression without the u flag: [A-Za-z0-9_].
IsWordChar(c) == c \in WordChars

\* \s of a regular expression, which is also what String.prototype.trim strips:
\* WhiteSpace and LineTerminator code units.
WhiteSpaceChars ==
  { " ", "#9", "#10", "#11", "#12", "#13", "#160", "#5760", "#8192", "#8193", "#8194",
    "#8195", "#8196", "#8197", "#8198", "#8199", "#8200", "#8201", "#8202", "#8232",
    "#8233", "#8239", "#8287", "#12288", "#65279" }

IsSpace(c) == c \in WhiteSpaceChars

\* What "." of a regular expression (no s flag) refuses: the line terminators.
IsLineTerminator(c) == c \in {"#10", "#13", "#8232", "#8233"}

----------------------------------------------------------------------------
(* String primitives of the language *)

RECURSIVE Flatten(_)
\* The concatenation of a sequence of strings.
Flatten(ss) == IF ss = << >> THEN << >> ELSE Head(ss) \o Flatten(Tail(ss))

Min(a, b) == IF a <= b THEN a ELSE b
Max(a, b) == IF a >= b THEN a ELSE b

\* s.substring(a, b) for 0 <= a: the code units at positions a .. b-1.
Substring(s, a, b) ==
  LET lo == Min(Max(a, 0), Len(s))
      hi == Min(Max(b, 0), Len(s))
  IN SubSeq(s, Min(lo, hi) + 1, Max(lo, hi))

\* sub occurs in s at position p.
OccursAt(s, sub, p) ==
  /\ p >= 0
  /\ p + Len(sub) <= Len(s)
  /\ \A k \in 1..Len(sub) : s[p + k] = sub[k]

\* s.indexOf(sub, from): the first position >= from at which sub occurs, else -1.
\* The start is clamped to 0 .. length, so an empty sub is found at
\* min(from, length) however large from is.
IndexOf(s, sub, from) ==
  LET start == Min(Max(from, 0), Len(s))
  IN IF \E p \in start..Len(s) : OccursAt(s, sub, p)
       THEN CHOOSE p \in start..Len(s) :
              OccursAt(s, sub, p) /\ \A q \in start..(p - 1) : ~OccursAt(s, sub, q)
       ELSE -1

\* The lower case of one code unit, as a string: String.prototype.toLowerCase
\* maps U+0130 to the two code units U+0069 U+0307 (Unicode SpecialCasing).
LowerOfChar(c) ==
  IF IsUpper(c) THEN << LowerLetters[PosIn(UpperLetters, c)] >>
  ELSE IF c = "#304" THEN << "i", "#775" >>
  ELSE << c >>

\* s.toLowerCase(): code unit by code unit (the concatenation is taken only
\* when some code unit has a longer lower case).
ToLowerCase(s) ==
  IF \A i \in 1..Len(s) : Len(LowerOfChar(s[i])) = 1
    THEN [i \in 1..Len(s) |-> LowerOfChar(s[i])[1]]
    ELSE Flatten([i \in 1..Len(s) |-> LowerOfChar(s[i])])

\* The number of leading code units of s that are in chars.
RunLength(s, chars) ==
  IF \E i \in 1..Len(s) : s[i] \notin chars
    THEN (CHOOSE i \in 1..Len(s) : s[i] \notin chars /\ \A j \in 1..(i - 1) : s[j] \in chars) - 1
    ELSE Len(s)

\* The number of leading code units of s that are not in chars.
RunLengthOutside(s, chars) ==
  IF \E i \in 1..Len(s) : s[i] \in chars
    THEN (CHOOSE i \in 1..Len(s) : s[i] \in chars /\ \A j \in 1..(i - 1) : s[j] \notin chars) - 1
    ELSE Len(s)

\* The number of trailing code units of s that are in chars.
TailRunLength(s, chars) ==
  IF \E i \in 1..Len(s) : s[i] \notin chars
    THEN Len(s) - (CHOOSE i \in 1..Len(s) :
                     s[i] \notin chars /\ \A j \in (i + 1)..Len(s) : s[j] \in chars)
    ELSE Len(s)

\* s.trim()
Trim(s) ==
  IF \A i \in 1..Len(s) : IsSpace(s[i]) THEN << >>
  ELSE SubSeq(s, RunLength(s, WhiteSpaceChars) + 1, Len(s) - TailRunLength(s, WhiteSpaceChars))

\* s without its first n code units.
Drop(s, n) == SubSeq(s, n + 1, Len(s))

\* s without its leading white space.
SkipSpaces(s) == Drop(s, RunLength(s, WhiteSpaceChars))

RECURSIVE SplitWs(_)
\* s.split(/\s+/): the pieces of s between maximal runs of white space.  A
\* leading or trailing run leaves an empty piece.
SplitWs(s) ==
  IF \A i \in 1..Len(s) : ~IsSpace(s[i]) THEN << s >>
  ELSE << SubSeq(s, 1, RunLengthOutside(s, WhiteSpaceChars)) >>
       \o SplitWs(SkipSpaces(Drop(s, RunLengthOutside(s, WhiteSpaceChars))))

RECURSIVE Join(_, _)
\* words.join(sep)
Join(words, sep) ==
  IF words = << >> THEN << >>
  ELSE IF Len(words) = 1 THEN words[1]
  ELSE words[1] \o sep \o Join(Tail(words), sep)

----------------------------------------------------------------------------
(* utils/textCleaner.ts *)

\* namedEntities: the named entities the decoder knows, and what each stands for.
namedEntities ==
  << << <<"a", "m", "p">>, "&" >>,
     << <<"l", "t">>, "<" >>,
     << <<"g", "t">>, ">" >>,
     << <<"q", "u", "o", "t">>, "\"" >>,
     << <<"a", "p", "o", "s">>, "'" >>,
     << <<"n", "b", "s", "p">>, " " >>,
     << <<"c", "o", "p", "y">>, "#169" >>,
     << <<"r", "e", "g">>, "#174" >>,
     << <<"t", "r", "a", "d", "e">>, "#8482" >> >>

RECURSIVE ParseInt(_, _, _)
\* parseInt(digits, radix) followed by the ToUint16 of String.fromCharCode,
\* folded into the accumulator acc so that the value stays a small integer.
ParseInt(digits, radix, acc) ==
  IF digits = << >> THEN acc
  ELSE ParseInt(Tail(digits), radix, (acc * radix + DigitValue(Head(digits))) % 65536)

\* One match of /&(?:#([0-9]+)|#x([0-9a-fA-F]+)|([a-zA-Z0-9]+));/ at the start of
\* s (which begins with "&"), with the replacement the callback returns for it:
\* [len |-> length of the match, 0 when there is none, out |-> replacement].
EntityAt(s) ==
  LET rest == Tail(s)
      decRun == IF Len(rest) >= 1 /\ rest[1] = "#"
                  THEN RunLength(Tail(rest), DigitChars) ELSE 0
      hexRun == IF Len(rest) >= 2 /\ rest[1] = "#" /\ rest[2] = "x"
                  THEN RunLength(SubSeq(rest, 3, Len(rest)), HexDigitChars) ELSE 0
      nameRun == RunLength(rest, AlnumChars)
  IN IF decRun > 0 /\ Len(rest) >= decRun + 2 /\ rest[decRun + 2] = ";"
       THEN [len |-> decRun + 3,
             out |-> << FromCharCode(ParseInt(SubSeq(rest, 2, decRun + 1), 10, 0)) >>]
     ELSE IF hexRun > 0 /\ Len(rest) >= hexRun + 3 /\ rest[hexRun + 3] = ";"
       THEN [len |-> hexRun + 4,
             out |-> << FromCharCode(ParseInt(SubSeq(rest, 3, hexRun + 2), 16, 0)) >>]
     ELSE IF nameRun > 0 /\ Len(rest) >= nameRun + 1 /\ rest[nameRun + 1] = ";"
       THEN LET name == SubSeq(rest, 1, nameRun)
                known == { i \in 1..Len(namedEntities) : namedEntities[i][1] = name }
            IN [len |-> nameRun + 2,
                out |-> IF known = {}
                          THEN SubSeq(s, 1, nameRun + 2)
                          ELSE << namedEntities[CHOOSE i \in known : TRUE][2] >>]
     ELSE [len |-> 0, out |-> << >>]

RECURSIVE decodeHtmlEntities(_)
\* The replace of decodeHtmlEntities from a "&" on: s begins with "&" and m is
\* EntityAt(s).  A match is replaced and the scan goes on behind it (the
\* replacement is not scanned again); otherwise the "&" stays.
DecodeFromAmp(s, m) ==
  IF m.len > 0
    THEN m.out \o decodeHtmlEntities(Drop(s, m.len))
    ELSE << "&" >> \o decodeHtmlEntities(Tail(s))

\* text.replace(/&(...);/g, callback): every entity, left to right, replaced by
\* what the callback returns.
decodeHtmlEntities(text) ==
  IF IndexOf(text, << "&" >>, 0) = -1 THEN text
  ELSE SubSeq(text, 1, IndexOf(text, << "&" >>, 0))
       \o DecodeFromAmp(Drop(text, IndexOf(text, << "&" >>, 0)),
                        EntityAt(Drop(text, IndexOf(text, << "&" >>, 0))))

RECURSIVE RemoveTags(_)
\* The replace of step 1 from a "<" on: s begins with "<" and close is the
\* position of the next ">" (-1 when there is none, and then none follows
\* any later "<" either).
RemoveFromOpen(s, close) ==
  IF close = -1 THEN s ELSE RemoveTags(Drop(s, close + 1))

\* cleaned.replace(/<[^>]*>/g, ""): from each "<" up to the next ">".
RemoveTags(s) ==
  IF IndexOf(s, << "<" >>, 0) = -1 THEN s
  ELSE SubSeq(s, 1, IndexOf(s, << "<" >>, 0))
       \o RemoveFromOpen(Drop(s, IndexOf(s, << "<" >>, 0)),
                         IndexOf(Drop(s, IndexOf(s, << "<" >>, 0)), << ">" >>, 1))

\* Where the closing delimiter d of a lazy /d(.*?)d/ or /d(.+?)d/ that opens at
\* the start of s is found: the first position >= Len(d) + minInner at which d
\* occurs with no line terminator before it ("." refuses them); -1 when none.
CloseOf(s, d, minInner) ==
  LET hits == { j \in (Len(d) + minInner)..Len(s) :
                  /\ OccursAt(s, d, j)
                  /\ \A k \in (Len(d) + 1)..j : ~IsLineTerminator(s[k]) }
  IN IF hits = {} THEN -1 ELSE CHOOSE j \in hits : \A q \in hits : j <= q

RECURSIVE StripMarker(_, _, _)
\* The replace from an opening delimiter on: s begins with d and close is
\* CloseOf(s, d, minInner).  A delimited span is replaced by what it encloses
\* and the scan goes on behind it; otherwise the scan goes on one code unit on.
StripFromOpen(s, d, minInner, close) ==
  IF close # -1
    THEN Substring(s, Len(d), close) \o StripMarker(Drop(s, close + Len(d)), d, minInner)
    ELSE << Head(s) >> \o StripMarker(Tail(s), d, minInner)

\* cleaned.replace(/d(.*?)d/g, '$1') when minInner = 0 and /d(.+?)d/g when it is
\* 1: each delimited span, left to right, replaced by what it encloses.
StripMarker(s, d, minInner) ==
  IF IndexOf(s, d, 0) = -1 THEN s
  ELSE SubSeq(s, 1, IndexOf(s, d, 0))
       \o StripFromOpen(Drop(s, IndexOf(s, d, 0)), d, minInner,
                        CloseOf(Drop(s, IndexOf(s, d, 0)), d, minInner))

\* Step 3 of cleanText: the six Markdown replacements, in the order of the code.
RemoveMarkdown(s) ==
  LET bold == StripMarker(s, <<"*", "*">>, 0)
      italic == StripMarker(bold, <<"*">>, 1)
      boldU == StripMarker(italic, <<"_", "_">>, 1)
      italicU == StripMarker(boldU, <<"_">>, 1)
      strike == StripMarker(italicU, <<"~", "~">>, 1)
  IN StripMarker(strike, <<"#96">>, 1)

\* The white space left as it is.
NormalizeWhitespaceLeftOut(s) == s

RECURSIVE NormalizeWhitespace(_)
\* cleaned.replace(/\s+/g, " "): every maximal run of white space becomes one space.
NormalizeWhitespace(s) ==
  IF \A i \in 1..Len(s) : ~IsSpace(s[i]) THEN s
  ELSE SubSeq(s, 1, RunLengthOutside(s, WhiteSpaceChars)) \o << " " >>
       \o NormalizeWhitespace(SkipSpaces(Drop(s, RunLengthOutside(s, WhiteSpaceChars))))

\* cleanText(text) for a string: tags, entities, Markdown, white space, trim.
\* (!text of the empty string returns "" at once, which the steps also give.)
cleanText(text) ==
  IF text = << >> THEN << >>
  ELSE Trim(NormalizeWhitespace(RemoveMarkdown(decodeHtmlEntities(RemoveTags(text)))))

----------------------------------------------------------------------------
(* utils/searchBuilderContent.ts: the pure helpers *)

\* The characters escapeRegExp puts a backslash before: . * + ? ^ $ { } ( ) | [ ] \
RegExpSpecials ==
  { ".", "*", "+", "?", "^", "$", "{", "}", "(", ")", "|", "[", "]", "\\" }

RECURSIVE escapeRegExp(_)
\* string.replace(/[.*+?^${}()|[\]\\]/g, '\\$&')
escapeRegExp(string) ==
  IF string = << >> THEN << >>
  ELSE (IF Head(string) \in RegExpSpecials THEN << "\\", Head(string) >> ELSE << Head(string) >>)
       \o escapeRegExp(Tail(string))

\* The source text of the whole-word pattern: `\\b${escapeRegExp(term)}\\b`.
WholeWordSource(term) == << "\\", "b" >> \o escapeRegExp(term) \o << "\\", "b" >>

RECURSIVE CompilePattern(_)
\* new RegExp(source): the atoms of a pattern made of \b, escaped characters,
\* "." and plain characters.  (escapeRegExp leaves no quantifier, group or class
\* unescaped, so the patterns built here have no other construct.)
CompilePattern(source) ==
  IF source = << >> THEN << >>
  ELSE IF Head(source) = "\\" /\ Len(source) >= 2
    THEN << IF source[2] = "b" THEN [kind |-> "boundary", ch |-> ""]
                               ELSE [kind |-> "literal", ch |-> source[2]] >>
         \o CompilePattern(SubSeq(source, 3, Len(source)))
    ELSE << IF Head(source) = "." THEN [kind |-> "any", ch |-> ""]
                                  ELSE [kind |-> "literal", ch |-> Head(source)] >>
         \o CompilePattern(Tail(source))

\* Canonicalize of a pattern with the i flag and without the u flag: the upper
\* case of the code unit when that is one code unit.
Canonicalize(c, ignoreCase) ==
  IF ignoreCase /\ IsLower(c) THEN UpperLetters[PosIn(LowerLetters, c)] ELSE c

\* \b holds at position p of text: exactly one side of p is a word character.
IsWordBoundary(text, p) ==
  LET before == p >= 1 /\ IsWordChar(text[p])
      after == p < Len(text) /\ IsWordChar(text[p + 1])
  IN before # after

RECURSIVE MatchFrom(_, _, _, _)
\* The position at which a match of the atoms ends when it starts at p, or -1.
MatchFrom(atoms, text, p, ignoreCase) ==
  IF atoms = << >> THEN p
  ELSE LET a == Head(atoms)
       IN IF a.kind = "boundary"
            THEN IF IsWordBoundary(text, p)
                   THEN MatchFrom(Tail(atoms), text, p, ignoreCase) ELSE -1
          ELSE IF p >= Len(text) THEN -1
          ELSE IF a.kind = "any"
            THEN IF IsLineTerminator(text[p + 1])
                   THEN -1 ELSE MatchFrom(Tail(atoms), text, p + 1, ignoreCase)
          ELSE IF Canonicalize(text[p + 1], ignoreCase) = Canonicalize(a.ch, ignoreCase)
            THEN MatchFrom(Tail(atoms), text, p + 1, ignoreCase)
          ELSE -1

\* regex.exec(text) of a global pattern whose lastIndex is lastIndex: the first
\* match that starts at or after lastIndex.  [index |-> start, or -1 for null,
\* end |-> the new lastIndex: the end of the match, 0 after a failure].
RegExpExec(atoms, ignoreCase, text, lastIndex) ==
  LET hits == { p \in lastIndex..Len(text) : MatchFrom(atoms, text, p, ignoreCase) # -1 }
  IN IF hits = {} THEN [index |-> -1, end |-> 0]
     ELSE LET p == CHOOSE q \in hits : \A r \in hits : q <= r
          IN [index |-> p, end |-> MatchFrom(atoms, text, p, ignoreCase)]

\* The divisor floor of calculateFinalScore.
ScoreLengthFloor == 50

\* calculateFinalScore dividing by the length of the text, however short.
calculateFinalScoreWithoutFloor(baseScore, textLength) ==
  [num |-> baseScore * ScoreLengthFloor, den |-> Max(textLength, 1)]

\* calculateFinalScore(baseScore, textLength) = baseScore * (50 / max(textLength, 50)),
\* kept as the exact fraction num / den.
calculateFinalScore(baseScore, textLength) ==
  [num |-> baseScore * ScoreLengthFloor, den |-> Max(textLength, ScoreLengthFloor)]

\* x >= y for two fractions with positive denominators.
ScoreGeq(x, y) == x.num * y.den >= y.num * x.den

\* How far the fallback excerpt reaches on each side of the match.
ExcerptFallbackSpan == 50

RECURSIVE WordFlags(_, _, _, _, _)
\* The words.forEach of generateExcerpt: for each word, whether it overlaps the
\* match, the words being located one after the other from currentPosition.
WordFlags(words, cleanedText, currentPosition, matchIndex, matchLength) ==
  IF words = << >> THEN << >>
  ELSE LET word == Head(words)
           startPos == IndexOf(cleanedText, word, currentPosition)
           endPos == startPos + Len(word)
           wordOverlapsMatch == (startPos <= matchIndex + matchLength - 1) /\ (endPos > matchIndex)
       IN << wordOverlapsMatch >>
          \o WordFlags(Tail(words), cleanedText, endPos, matchIndex, matchLength)

\* Lines 446-457 of generateExcerpt: the words startIndex .. endIndex-1 joined by
\* single spaces, with "... " before when words are cut off at the front and
\* " ..." after when words are cut off at the back.
BuildExcerpt(words, startIndex, endIndex) ==
  (IF startIndex > 0 THEN << ".", ".", ".", " " >> ELSE << >>)
  \o Join(SubSeq(words, startIndex + 1, endIndex), << " " >>)
  \o (IF endIndex < Len(words) THEN << " ", ".", ".", "." >> ELSE << >>)

\* fullWordArray.findIndex(w => w.isMatch): 0-based, -1 when no word is a match.
FindMatchWord(isMatch) ==
  IF \E i \in 1..Len(isMatch) : isMatch[i]
    THEN (CHOOSE i \in 1..Len(isMatch) : isMatch[i] /\ \A j \in 1..(i - 1) : ~isMatch[j]) - 1
    ELSE -1

\* Lines 431-457 of generateExcerpt, matchWordIndex being known: the fallback
\* window of the text when no word overlaps the match, else the words around
\* the first word that does.
ExcerptAround(cleanedText, words, matchWordIndex, matchIndex, matchLength, contextWords) ==
  IF matchWordIndex = -1
    THEN Substring(cleanedText,
                   Max(0, matchIndex - ExcerptFallbackSpan),
                   Min(Len(cleanedText), matchIndex + matchLength + ExcerptFallbackSpan))
    ELSE BuildExcerpt(words,
                      Max(0, matchWordIndex - contextWords),
                      Min(Len(words), matchWordIndex + contextWords + 1))

\* Lines 406-457 of generateExcerpt, the text being cleaned and split.
ExcerptOfWords(cleanedText, words, matchIndex, matchLength, contextWords) ==
  ExcerptAround(cleanedText, words,
                FindMatchWord(WordFlags(words, cleanedText, 0, matchIndex, matchLength)),
                matchIndex, matchLength, contextWords)

\* Lines 406-457 of generateExcerpt, the text being cleaned.
ExcerptOfCleaned(cleanedText, matchIndex, matchLength, contextWords) ==
  ExcerptOfWords(cleanedText, SplitWs(cleanedText), matchIndex, matchLength,
                 contextWords)

\* generateExcerpt(text, matchIndex, matchLength, contextWords): the text is
\* cleaned (again: the caller passes a cleaned text), split into words, and the
\* words around the first word that overlaps the match are joined.
generateExcerpt(text, matchIndex, matchLength, contextWords) ==
  ExcerptOfCleaned(cleanText(text), matchIndex, matchLength, contextWords)

\* results.filter(result => result.matchScore >= minScore)
FilterByScore(results, minScore) ==
  SelectSeq(results, LAMBDA r : ScoreGeq(r.matchScore, minScore))

RECURSIVE InsertByScore(_, _)
\* r put into the list sorted by descending score, after the entries that
\* compare equal to it.
InsertByScore(sorted, r) ==
  IF sorted = << >> THEN << r >>
  ELSE IF ScoreGeq(Head(sorted).matchScore, r.matchScore)
    THEN << Head(sorted) >> \o InsertByScore(Tail(sorted), r)
    ELSE << r >> \o sorted

RECURSIVE InsertByScoreAscending(_, _)
\* InsertByScore with the comparison turned round.
InsertByScoreAscending(sorted, r) ==
  IF sorted = << >> THEN << r >>
  ELSE IF ScoreGeq(r.matchScore, Head(sorted).matchScore)
    THEN << Head(sorted) >> \o InsertByScoreAscending(Tail(sorted), r)
    ELSE << r >> \o sorted

RECURSIVE SortByScoreAscending(_)
\* SortByScore with the comparator written a.matchScore - b.matchScore.
SortByScoreAscending(results) ==
  IF results = << >> THEN << >>
  ELSE InsertByScoreAscending(SortByScoreAscending(SubSeq(results, 1, Len(results) - 1)),
                              results[Len(results)])

RECURSIVE SortByScore(_)
\* filteredResults.sort((a, b) => b.matchScore - a.matchScore): descending by
\* score, entries of equal score keeping their order (Array.prototype.sort is
\* stable).
SortByScore(results) ==
  IF results = << >> THEN << >>
  ELSE InsertByScore(SortByScore(SubSeq(results, 1, Len(results) - 1)), results[Len(results)])

----------------------------------------------------------------------------
(* The inputs of a call of searchBuilderContent *)

\* The longest search term that is enumerated in full.
MaxTermLen == 2
\* The most pages of a content.
MaxPages == 2
\* The most results the array holds before the engine runs out of memory.
MaxResults == 24
\* The length of the long text.
LongLen == 512

TermAlphabet == { "a", "A", "+", " " }

\* Every string over TermAlphabet of length n.
StringsOfLen(n) == [1..n -> TermAlphabet]

\* Terms that are decoded by the cleaner, or span two words.
SpecialTerms ==
  { <<"&", "a", "m", "p", ";">>,
    <<"&", "A", "M", "P", ";">>,
    <<"&", "n", "b", "s", "p", ";">>,
    <<"+", " ", "A">> }

Terms == (UNION { StringsOfLen(n) : n \in 0..MaxTermLen }) \cup SpecialTerms

\* "a+ A a+a"
TextWords == <<"a", "+", " ", "A", " ", "a", "+", "a">>
\* "aaa"
TextRun == <<"a", "a", "a">>
\* U+0130 "a a"
TextDotted == <<"#304", "a", " ", "a">>
\* "&lt;a&gt; &amp; a"
TextEntities ==
  <<"&", "l", "t", ";", "a", "&", "g", "t", ";", " ", "&", "a", "m", "p", ";", " ", "a">>
\* "a a " followed by "b" up to LongLen code units
TextLong == [i \in 1..LongLen |-> IF i \in {1, 3} THEN "a" ELSE IF i \in {2, 4} THEN " " ELSE "b"]

Page(n, texts, isArray) ==
  [title |-> <<"P", n>>, url |-> <<"/", n>>, content |-> texts, isArray |-> isArray]

\* The pages a content is made of.  isArray = FALSE stands for a page whose
\* content is not an array (Array.isArray(page.content) is false).
PagePool ==
  { Page("1", << TextWords, TextRun >>, TRUE),
    Page("2", << TextDotted >>, TRUE),
    Page("3", << TextEntities >>, TRUE),
    Page("4", << >>, FALSE) }

\* Contents with the long text, whose matches score below the default minScore.
LongContents ==
  { << Page("5", << TextLong >>, TRUE) >>,
    << Page("5", << TextLong >>, TRUE), Page("1", << TextWords, TextRun >>, TRUE) >> }

\* "aa a": the term "a" is found in it three times, once as a whole word.
TextMixed == <<"a", "a", " ", "a">>

\* Contents with the text in which a word is also part of another word.
MixedContents == { << Page("6", << TextMixed >>, TRUE) >> }

Contents == (UNION { [1..n -> PagePool] : n \in 0..MaxPages }) \cup LongContents \cup MixedContents

\* An option that is left out (given = FALSE) or given with a value.
Omitted(v) == [given |-> FALSE, value |-> v]
Given(v) == [given |-> TRUE, value |-> v]

OptionSets ==
  [ caseSensitive : { Omitted(FALSE), Given(TRUE) },
    wholeWord : { Omitted(FALSE), Given(TRUE) },
    minScore : { Omitted([num |-> 0, den |-> 1]),
                 Given([num |-> 0, den |-> 1]),
                 Given([num |-> 3, den |-> 2]) },
    contextWords : { Omitted(0), Given(0), Given(1) } ]

----------------------------------------------------------------------------
(* searchBuilderContent, step by step *)

VARIABLES
  content,               \* argument: the pages
  searchTerm,            \* argument
  options,               \* argument
  pc,                    \* where the call is: start, pages, texts, wholeWord,
                         \* substring, done (returned), aborted (out of memory)
  normalizedSearchTerm,
  wholeWordRegex,        \* [isNull, atoms, ignoreCase, lastIndex]
  pageIdx,               \* the page content.forEach is at, from 1; 0 before the loop
  textIdx,               \* the text page.content.forEach is at, from 1
  cleanedText,
  normalizedText,
  matchScore,
  position,              \* the position variable of the substring loop
  results,
  returned               \* the array the call returns

\* The state of a call of fetchBuilderContent or extractBuilderContent, made
\* directly or through a client of createBuilderClient.
VARIABLES
  entry,                 \* the function called: "fetchBuilderContent",
                         \* "extractBuilderContent", or through a client
                         \* "fetchTextContent", "extractContent"
  apiKey,                \* argument (of createBuilderClient for a client)
  callOptions,           \* the options given (at creation and at the call)
  network,               \* what fetchImplementation and response.json() do
  builderResults,        \* the raw results extractBuilderContent is given
  client,                \* the client createBuilderClient has returned, if any
  step,                  \* where the call is
  fetchCalls,            \* the requests fetchImplementation has been called with
  jsonCalls,             \* how many times response.json() has been called
  resultIdx,             \* the result builderResults.forEach is at, from 1
  pageTexts,             \* the texts of the last result processed
  formattedContent,
  transformerCalls,      \* the arguments contentTransformer has been called with
  settled,               \* how the call has ended: returned, rejected, threw
  callCount              \* how many calls have been started, this one included

\* The state of a call of generateMetadataFromContent (its content argument is
\* the variable content).
VARIABLES
  metadataOptions,       \* argument
  metadata               \* what the call has returned

\* The state of a call of the two cleanText functions on one string.
VARIABLES
  rawText,               \* argument
  cleanResult            \* what each cleanText has returned

searchVars ==
  << content, searchTerm, options, pc, normalizedSearchTerm, wholeWordRegex, pageIdx,
     textIdx, cleanedText, normalizedText, matchScore, position, results, returned >>

extractVars ==
  << entry, apiKey, callOptions, network, builderResults, client, step, fetchCalls,
     jsonCalls, resultIdx, pageTexts, formattedContent, transformerCalls, settled,
     callCount >>

metadataVars == << metadataOptions, metadata >>

cleanVars == << rawText, cleanResult >>

vars == << searchVars, extractVars, metadataVars, cleanVars >>

inputs == << content, searchTerm, options >>

\* No client, no error, no value.
NoClient ==
  [exists |-> FALSE, apiKey |-> << >>, locale |-> "", defaultLocale |-> "",
   apiUrl |-> Omitted(""), textFields |-> << >>, fetchImplementation |-> Omitted("")]
NoError == [name |-> "", message |-> << >>]
Pending == [kind |-> "pending", error |-> NoError, value |-> << >>]

\* No call of searchBuilderContent is under way.
SearchIdle ==
  /\ searchTerm = << >>
  /\ options = << >>
  /\ pc = "idle"
  /\ normalizedSearchTerm = << >>
  /\ wholeWordRegex = << >>
  /\ pageIdx = 0
  /\ textIdx = 0
  /\ cleanedText = << >>
  /\ normalizedText = << >>
  /\ matchScore = 0
  /\ position = -1
  /\ results = << >>
  /\ returned = << >>

\* No call of fetchBuilderContent, extractBuilderContent or a client is under way.
ExtractIdle ==
  /\ entry = "none"
  /\ apiKey = << >>
  /\ callOptions = << >>
  /\ network = << >>
  /\ builderResults = << >>
  /\ client = NoClient
  /\ step = "idle"
  /\ fetchCalls = << >>
  /\ jsonCalls = 0
  /\ resultIdx = 0
  /\ pageTexts = << >>
  /\ formattedContent = << >>
  /\ transformerCalls = << >>
  /\ settled = Pending
  /\ callCount = 0

\* No call of generateMetadataFromContent is under way.
MetadataIdle ==
  /\ metadataOptions = << >>
  /\ metadata = << >>

\* No call of cleanText is under way.
CleanIdle ==
  /\ rawText = << >>
  /\ cleanResult = << >>

\* The defaults of the destructuring of options.
DefaultMinScore == [num |-> 1, den |-> 10]
DefaultContextWords == 5

\* Lines 288-293: const { caseSensitive = false, wholeWord = false,
\* minScore = 0.1, contextWords = 5 } = options, for the options o.
CaseSensitiveOf(o) == IF o.caseSensitive.given THEN o.caseSensitive.value ELSE FALSE
WholeWordOf(o) == IF o.wholeWord.given THEN o.wholeWord.value ELSE FALSE
\* MinScoreOf with the default left at 0.
MinScoreOfZeroDefault(o) ==
  IF o.minScore.given THEN o.minScore.value ELSE [num |-> 0, den |-> 1]
MinScoreOf(o) == IF o.minScore.given THEN o.minScore.value ELSE DefaultMinScore
ContextWordsOf(o) == IF o.contextWords.given THEN o.contextWords.value ELSE DefaultContextWords

caseSensitive == CaseSensitiveOf(options)
wholeWord == WholeWordOf(options)
minScore == MinScoreOf(options)
contextWords == ContextWordsOf(options)

\* Line 314: the cleaned text, in lower case unless the search is case-sensitive.
NormalizedText(cleaned, o) == IF CaseSensitiveOf(o) THEN cleaned ELSE ToLowerCase(cleaned)

\* Line 295: the cleaned term, in lower case unless the search is case-sensitive.
NormalizedTerm(term, o) ==
  IF CaseSensitiveOf(o) THEN cleanText(term) ELSE ToLowerCase(cleanText(term))

\* Lines 299-301: the whole-word pattern of the normalized term, or null.
RegexFor(term, o) ==
  IF WholeWordOf(o)
    THEN [isNull |-> FALSE,
          atoms |-> CompilePattern(WholeWordSource(term)),
          ignoreCase |-> ~CaseSensitiveOf(o),
          lastIndex |-> 0]
    ELSE [isNull |-> TRUE, atoms |-> << >>, ignoreCase |-> FALSE, lastIndex |-> 0]

\* Lines 334-341 and 356-363: the result pushed for a match of length
\* matchLength at matchIndex of the cleaned text of page, the running score
\* being score.
MakeResult(page, cleaned, matchIndex, matchLength, score, ctxWords) ==
  [pageTitle |-> page.title,
   pageUrl |-> page.url,
   text |-> cleaned,
   matchScore |-> calculateFinalScore(score, Len(cleaned)),
   excerpt |-> generateExcerpt(cleaned, matchIndex, matchLength, ctxWords),
   matchPosition |-> matchIndex]

NullRegex == [isNull |-> TRUE, atoms |-> << >>, ignoreCase |-> FALSE, lastIndex |-> 0]

Init ==
  /\ content \in Contents
  /\ searchTerm \in Terms
  /\ options \in OptionSets
  /\ pc = "start"
  /\ normalizedSearchTerm = << >>
  /\ wholeWordRegex = NullRegex
  /\ pageIdx = 0
  /\ textIdx = 0
  /\ cleanedText = << >>
  /\ normalizedText = << >>
  /\ matchScore = 0
  /\ position = -1
  /\ results = << >>
  /\ returned = << >>
  /\ ExtractIdle
  /\ MetadataIdle
  /\ CleanIdle

\* IsBlankTerm without the trim: only !searchTerm.
IsBlankTermNoTrim(term) == term = << >>

\* !searchTerm || searchTerm.trim() === ''
IsBlankTerm(term) == term = << >> \/ Trim(term) = << >>

\* Lines 281-283: a blank term returns [] at once.
ReturnEmpty ==
  /\ pc = "start"
  /\ IsBlankTerm(searchTerm)
  /\ returned' = << >>
  /\ pc' = "done"
  /\ UNCHANGED << extractVars, metadataVars, cleanVars, inputs, normalizedSearchTerm, wholeWordRegex, pageIdx, textIdx,
                  cleanedText, normalizedText, matchScore, position, results >>

\* Lines 285-301: the term is cleaned and normalized, the pattern is built.
Prepare ==
  /\ pc = "start"
  /\ ~IsBlankTerm(searchTerm)
  /\ normalizedSearchTerm' = NormalizedTerm(searchTerm, options)
  /\ wholeWordRegex' = RegexFor(NormalizedTerm(searchTerm, options), options)
  /\ results' = << >>
  /\ pageIdx' = 1
  /\ pc' = "pages"
  /\ UNCHANGED << extractVars, metadataVars, cleanVars, inputs, textIdx, cleanedText, normalizedText, matchScore, position, returned >>

\* Lines 304-309: a page whose content is not an array is skipped with a warning.
SkipPage ==
  /\ pc = "pages"
  /\ pageIdx <= Len(content)
  /\ ~content[pageIdx].isArray
  /\ pageIdx' = pageIdx + 1
  /\ UNCHANGED << extractVars, metadataVars, cleanVars, inputs, pc, normalizedSearchTerm, wholeWordRegex, textIdx, cleanedText,
                  normalizedText, matchScore, position, results, returned >>

\* Line 311: page.content.forEach begins.
EnterPage ==
  /\ pc = "pages"
  /\ pageIdx <= Len(content)
  /\ content[pageIdx].isArray
  /\ textIdx' = 1
  /\ pc' = "texts"
  /\ UNCHANGED << extractVars, metadataVars, cleanVars, inputs, normalizedSearchTerm, wholeWordRegex, pageIdx, cleanedText,
                  normalizedText, matchScore, position, results, returned >>

\* Lines 311-324 and 347: the text is cleaned and normalized; the pattern's
\* lastIndex is reset, or the first indexOf is taken.
BeginText ==
  /\ pc = "texts"
  /\ textIdx <= Len(content[pageIdx].content)
  /\ cleanedText' = cleanText(content[pageIdx].content[textIdx])
  /\ normalizedText' = NormalizedText(cleanedText', options)
  /\ position' = IF wholeWord THEN -1 ELSE IndexOf(normalizedText', normalizedSearchTerm, 0)
  /\ matchScore' = 0
  /\ wholeWordRegex' = IF wholeWord THEN [wholeWordRegex EXCEPT !.lastIndex = 0]
                                    ELSE wholeWordRegex
  /\ pc' = IF wholeWord THEN "wholeWord" ELSE "substring"
  /\ UNCHANGED << extractVars, metadataVars, cleanVars, inputs, normalizedSearchTerm, pageIdx, textIdx, results, returned >>

\* The result pushed for a match of length matchLength at matchIndex, the
\* running score being score.
ResultFor(matchIndex, matchLength, score) ==
  MakeResult(content[pageIdx], cleanedText, matchIndex, matchLength, score, contextWords)

\* What wholeWordRegex.exec(cleanedText) gives in the current state.
ExecNow ==
  RegExpExec(wholeWordRegex.atoms, wholeWordRegex.ignoreCase, cleanedText,
             wholeWordRegex.lastIndex)

\* Lines 326-342: one turn of the while loop over the whole-word matches.
WholeWordMatch ==
  /\ pc = "wholeWord"
  /\ ExecNow.index # -1
  /\ Len(results) < MaxResults
  /\ matchScore' = matchScore + 2
  /\ results' = Append(results,
                       ResultFor(ExecNow.index, ExecNow.end - ExecNow.index, matchScore + 2))
  /\ wholeWordRegex' = [wholeWordRegex EXCEPT !.lastIndex = ExecNow.end]
  /\ UNCHANGED << extractVars, metadataVars, cleanVars, inputs, pc, normalizedSearchTerm, pageIdx, textIdx, cleanedText,
                  normalizedText, position, returned >>

\* Line 326: exec returns null, the loop over this text ends.
WholeWordEnd ==
  /\ pc = "wholeWord"
  /\ ExecNow.index = -1
  /\ wholeWordRegex' = [wholeWordRegex EXCEPT !.lastIndex = 0]
  /\ textIdx' = textIdx + 1
  /\ pc' = "texts"
  /\ UNCHANGED << extractVars, metadataVars, cleanVars, inputs, normalizedSearchTerm, pageIdx, cleanedText, normalizedText,
                  matchScore, position, results, returned >>

\* Lines 348-366: one turn of the while loop over the substring matches.
SubstringMatch ==
  /\ pc = "substring"
  /\ position # -1
  /\ Len(results) < MaxResults
  /\ matchScore' = matchScore + 1
  /\ results' = Append(results,
                       ResultFor(position, Len(normalizedSearchTerm), matchScore + 1))
  /\ position' = IndexOf(normalizedText, normalizedSearchTerm, position + 1)
  /\ UNCHANGED << extractVars, metadataVars, cleanVars, inputs, pc, normalizedSearchTerm, wholeWordRegex, pageIdx, textIdx,
                  cleanedText, normalizedText, returned >>

\* Line 348: indexOf returned -1, the loop over this text ends.
SubstringEnd ==
  /\ pc = "substring"
  /\ position = -1
  /\ textIdx' = textIdx + 1
  /\ pc' = "texts"
  /\ UNCHANGED << extractVars, metadataVars, cleanVars, inputs, normalizedSearchTerm, wholeWordRegex, pageIdx, cleanedText,
                  normalizedText, matchScore, position, results, returned >>

\* A loop that keeps pushing results ends only when the array cannot grow.
OutOfMemory ==
  /\ pc \in {"wholeWord", "substring"}
  /\ IF pc = "wholeWord" THEN ExecNow.index # -1 ELSE position # -1
  /\ Len(results) >= MaxResults
  /\ pc' = "aborted"
  /\ UNCHANGED << extractVars, metadataVars, cleanVars, inputs, normalizedSearchTerm, wholeWordRegex, pageIdx, textIdx,
                  cleanedText, normalizedText, matchScore, position, results, returned >>

\* Line 368: the texts of the page are done.
EndPage ==
  /\ pc = "texts"
  /\ textIdx > Len(content[pageIdx].content)
  /\ pageIdx' = pageIdx + 1
  /\ pc' = "pages"
  /\ UNCHANGED << extractVars, metadataVars, cleanVars, inputs, normalizedSearchTerm, wholeWordRegex, textIdx, cleanedText,
                  normalizedText, matchScore, position, results, returned >>

\* Lines 371-375: the results are filtered by score, sorted and returned.
FilterAndSort ==
  /\ pc = "pages"
  /\ pageIdx > Len(content)
  /\ returned' = SortByScore(FilterByScore(results, minScore))
  /\ pc' = "done"
  /\ UNCHANGED << extractVars, metadataVars, cleanVars, inputs, normalizedSearchTerm, wholeWordRegex, pageIdx, textIdx,
                  cleanedText, normalizedText, matchScore, position, results >>

Next ==
  \/ ReturnEmpty
  \/ Prepare
  \/ SkipPage
  \/ EnterPage
  \/ BeginText
  \/ WholeWordMatch
  \/ WholeWordEnd
  \/ SubstringMatch
  \/ SubstringEnd
  \/ OutOfMemory
  \/ EndPage
  \/ FilterAndSort

Spec == Init /\ [][Next]_vars

----------------------------------------------------------------------------
(* searchBuilderContent as a function of its arguments.  The loops are the *)
(* recursions below; a call whose loop never ends has no value, and is     *)
(* told apart by Hangs before the recursion is entered.                    *)

RECURSIVE SubstringLoop(_, _, _, _, _, _, _)
\* Lines 347-366: the results of the while loop from position on, score being
\* the matchScore so far.  (term is not empty.)
SubstringLoop(page, cleaned, normalized, term, pos, score, ctxWords) ==
  IF pos = -1 THEN << >>
  ELSE << MakeResult(page, cleaned, pos, Len(term), score + 1, ctxWords) >>
       \o SubstringLoop(page, cleaned, normalized, term,
                        IndexOf(normalized, term, pos + 1), score + 1, ctxWords)

RECURSIVE WholeWordLoop(_, _, _, _, _, _)
\* Lines 326-342, one turn: m is what exec has returned.
WholeWordTurn(page, cleaned, regex, m, score, ctxWords) ==
  IF m.index = -1 THEN << >>
  ELSE << MakeResult(page, cleaned, m.index, m.end - m.index, score + 2, ctxWords) >>
       \o WholeWordLoop(page, cleaned, regex, m.end, score + 2, ctxWords)

\* Lines 324-342: the results of the while loop with the pattern's lastIndex at
\* lastIndex.  (The pattern matches no empty string.)
WholeWordLoop(page, cleaned, regex, lastIndex, score, ctxWords) ==
  WholeWordTurn(page, cleaned, regex,
                RegExpExec(regex.atoms, regex.ignoreCase, cleaned, lastIndex),
                score, ctxWords)

\* Lines 311-367: the results one text of a page adds.
TextResults(page, text, term, regex, o) ==
  IF WholeWordOf(o)
    THEN WholeWordLoop(page, cleanText(text), regex, 0, 0, ContextWordsOf(o))
    ELSE SubstringLoop(page, cleanText(text), NormalizedText(cleanText(text), o), term,
                       IndexOf(NormalizedText(cleanText(text), o), term, 0), 0,
                       ContextWordsOf(o))

\* Lines 304-369: the results of all texts of all pages, in order; a page whose
\* content is not an array adds none.
AllResults(pages, term, regex, o) ==
  Flatten([i \in 1..Len(pages) |->
             IF pages[i].isArray
               THEN Flatten([j \in 1..Len(pages[i].content) |->
                               TextResults(pages[i], pages[i].content[j], term, regex, o)])
               ELSE << >>])

\* The while loop over one text never ends: an empty term is found by indexOf at
\* every position and again at the end of the text, and an empty match of the
\* pattern leaves lastIndex where it is.
TextHangs(text, term, regex, o) ==
  /\ term = << >>
  /\ WholeWordOf(o) =>
       RegExpExec(regex.atoms, regex.ignoreCase, cleanText(text), 0).index # -1

\* The call never returns.
Hangs(pages, searchTermArg, o) ==
  /\ ~IsBlankTerm(searchTermArg)
  /\ \E i \in 1..Len(pages) :
       /\ pages[i].isArray
       /\ \E j \in 1..Len(pages[i].content) :
            TextHangs(pages[i].content[j], NormalizedTerm(searchTermArg, o),
                      RegexFor(NormalizedTerm(searchTermArg, o), o), o)

\* What searchBuilderContent(pages, searchTermArg, o) returns, when it returns.
searchBuilderContent(pages, searchTermArg, o) ==
  IF IsBlankTerm(searchTermArg) THEN << >>
  ELSE SortByScore(FilterByScore(
         AllResults(pages, NormalizedTerm(searchTermArg, o),
                    RegexFor(NormalizedTerm(searchTermArg, o), o), o),
         MinScoreOf(o)))

\* The steps agree with the function: a call that has returned has returned the
\* function's value, and a call that ran out of memory is one that hangs.
StepsAgreeWithFunction ==
  /\ pc = "done" =>
       /\ ~Hangs(content, searchTerm, options)
       /\ returned = searchBuilderContent(content, searchTerm, options)
  /\ pc = "aborted" => Hangs(content, searchTerm, options)

----------------------------------------------------------------------------
(* utils/extractBuilderContent.ts: its own cleanText *)

RECURSIVE ReplaceAll(_, _, _)
\* s.replace(/pat/g, rep) for a pattern that is a literal, non-empty string:
\* every occurrence, left to right, the replacement not being scanned again.
ReplaceAll(s, pat, rep) ==
  IF IndexOf(s, pat, 0) = -1 THEN s
  ELSE SubSeq(s, 1, IndexOf(s, pat, 0)) \o rep
       \o ReplaceAll(Drop(s, IndexOf(s, pat, 0) + Len(pat)), pat, rep)

\* Lines 76-81: the six named replacements, in the order of the code; what one
\* replacement puts in is scanned by the next ones.
ReplaceCommonEntities(s) ==
  ReplaceAll(
    ReplaceAll(
      ReplaceAll(
        ReplaceAll(
          ReplaceAll(
            ReplaceAll(s, <<"&", "n", "b", "s", "p", ";">>, <<" ">>),
            <<"&", "a", "m", "p", ";">>, <<"&">>),
          <<"&", "l", "t", ";">>, <<"<">>),
        <<"&", "g", "t", ";">>, <<">">>),
      <<"&", "q", "u", "o", "t", ";">>, <<"\"">>),
    <<"&", "#", "3", "9", ";">>, <<"'">>)

\* The length of the match of /&#(\d+);/ at the start of s (which begins with
\* "&#"), the digits being a run of digitRun code units; 0 when there is none.
DecimalEntityLen(s, digitRun) ==
  IF digitRun > 0 /\ Len(s) >= digitRun + 3 /\ s[digitRun + 3] = ";"
    THEN digitRun + 3 ELSE 0

RECURSIVE DecodeDecimalEntities(_)
\* The replace of line 83 from a "&#" on: s begins with "&#" and len is
\* DecimalEntityLen of it.  String.fromCharCode(dec) takes the digits as a number.
DecodeDecimalFrom(s, len) ==
  IF len > 0
    THEN << FromCharCode(ParseInt(SubSeq(s, 3, len - 1), 10, 0)) >>
         \o DecodeDecimalEntities(Drop(s, len))
    ELSE << "&" >> \o DecodeDecimalEntities(Tail(s))

\* .replace(/&#(\d+);/g, (match, dec) => String.fromCharCode(dec))
DecodeDecimalEntities(s) ==
  IF IndexOf(s, <<"&", "#">>, 0) = -1 THEN s
  ELSE SubSeq(s, 1, IndexOf(s, <<"&", "#">>, 0))
       \o DecodeDecimalFrom(Drop(s, IndexOf(s, <<"&", "#">>, 0)),
            DecimalEntityLen(Drop(s, IndexOf(s, <<"&", "#">>, 0)),
                             RunLength(Drop(s, IndexOf(s, <<"&", "#">>, 0) + 2), DigitChars)))

\* The length of the match of /&#x([0-9a-f]+);/i at the start of s (which
\* begins with "&#"), the hexadecimal digits after the x being a run of hexRun
\* code units; 0 when there is none.
HexEntityLen(s, hexRun) ==
  IF Len(s) >= 3 /\ s[3] \in {"x", "X"} /\ hexRun > 0
     /\ Len(s) >= hexRun + 4 /\ s[hexRun + 4] = ";"
    THEN hexRun + 4 ELSE 0

RECURSIVE DecodeHexEntities(_)
\* The replace of line 84 from a "&#" on: s begins with "&#" and len is
\* HexEntityLen of it.
DecodeHexFrom(s, len) ==
  IF len > 0
    THEN << FromCharCode(ParseInt(SubSeq(s, 4, len - 1), 16, 0)) >>
         \o DecodeHexEntities(Drop(s, len))
    ELSE << "&" >> \o DecodeHexEntities(Tail(s))

\* .replace(/&#x([0-9a-f]+);/gi, (match, hex) => String.fromCharCode(parseInt(hex, 16)))
DecodeHexEntities(s) ==
  IF IndexOf(s, <<"&", "#">>, 0) = -1 THEN s
  ELSE SubSeq(s, 1, IndexOf(s, <<"&", "#">>, 0))
       \o DecodeHexFrom(Drop(s, IndexOf(s, <<"&", "#">>, 0)),
            HexEntityLen(Drop(s, IndexOf(s, <<"&", "#">>, 0)),
                         RunLength(Drop(s, IndexOf(s, <<"&", "#">>, 0) + 3), HexDigitChars)))

\* Lines 86-91: the six Markdown replacements; here the bold pattern is
\* /\*\*(.+?)\*\*/ and asks for at least one character between the markers.
RemoveMarkdownSymbols(s) ==
  StripMarker(
    StripMarker(
      StripMarker(
        StripMarker(
          StripMarker(
            StripMarker(s, <<"*", "*">>, 1),
            <<"*">>, 1),
          <<"_", "_">>, 1),
        <<"_">>, 1),
      <<"~", "~">>, 1),
    <<"#96">>, 1)

\* cleanText of extractBuilderContent.ts (lines 69-95) for a string: tags,
\* the common entities one after the other, numeric entities, Markdown, white
\* space, trim.
extractCleanText(text) ==
  IF text = << >> THEN << >>
  ELSE Trim(NormalizeWhitespace(RemoveMarkdownSymbols(DecodeHexEntities(
         DecodeDecimalEntities(ReplaceCommonEntities(RemoveTags(text)))))))

----------------------------------------------------------------------------
(* utils/extractBuilderContent.ts: JSON values and the walk over them *)

(* A JSON value is [type, str, entries]: a string with its code units in    *)
(* str, an object (or array) with its own properties in entries, in the     *)
(* order Object.entries gives them, a number, or undefined (what a missing  *)
(* property reads as).                                                      *)
StringValue(s) == [type |-> "string", str |-> s, entries |-> << >>]
ObjectValue(entries) == [type |-> "object", str |-> << >>, entries |-> entries]
NumberValue == [type |-> "number", str |-> <<"1">>, entries |-> << >>]
Undefined == [type |-> "undefined", str |-> << >>, entries |-> << >>]

\* One property of an object.
Entry(key, value) == [key |-> key, value |-> value]

\* obj[key]
Get(obj, key) ==
  IF \E i \in 1..Len(obj.entries) : obj.entries[i].key = key
    THEN obj.entries[CHOOSE i \in 1..Len(obj.entries) : obj.entries[i].key = key].value
    ELSE Undefined

\* Whether a value counts as true: undefined and the empty string do not.
Truthy(v) == v.type \in {"object", "number"} \/ (v.type = "string" /\ v.str # << >>)

\* a || b
OrElse(a, b) == IF Truthy(a) THEN a ELSE b

\* String(v)
ToStringOf(v) ==
  IF v.type = "object"
    THEN <<"[", "o", "b", "j", "e", "c", "t", " ", "O", "b", "j", "e", "c", "t", "]">>
  ELSE IF v.type = "undefined"
    THEN <<"u", "n", "d", "e", "f", "i", "n", "e", "d">>
  ELSE v.str

\* Line 61
DEFAULT_TEXT_FIELDS == << "text", "title", "textContent", "description" >>

\* The value of "@type" that marks a localized value.
LocalizedValueType ==
  <<"@", "b", "u", "i", "l", "d", "e", "r", ".", "i", "o", "/", "c", "o", "r", "e", ":",
    "L", "o", "c", "a", "l", "i", "z", "e", "d", "V", "a", "l", "u", "e">>

\* Line 123: obj[locale] || obj["Default"]
LocalizedText(obj, locale) == OrElse(Get(obj, locale), Get(obj, "Default"))

\* Lines 119-127: what the entry (key, value) of obj adds when it marks obj as
\* a localized value.
LocalizedTexts(obj, key, value, locale) ==
  IF key = "@type" /\ value = StringValue(LocalizedValueType)
       /\ Truthy(LocalizedText(obj, locale))
    THEN << extractCleanText(ToStringOf(LocalizedText(obj, locale))) >>
    ELSE << >>

\* Lines 130-135: what the entry adds when its key is one of the text fields
\* and its value is a string.
FieldTexts(key, value, textFields) ==
  IF (\E i \in 1..Len(textFields) : textFields[i] = key) /\ value.type = "string"
    THEN << extractCleanText(value.str) >>
    ELSE << >>

RECURSIVE extractTextFieldsFromObject(_, _, _)
\* Lines 117-141: what one entry of obj adds to texts.
EntryTexts(obj, e, locale, textFields) ==
  LocalizedTexts(obj, e.key, e.value, locale)
  \o FieldTexts(e.key, e.value, textFields)
  \o (IF e.value.type = "object"
        THEN extractTextFieldsFromObject(e.value, locale, textFields)
        ELSE << >>)

\* extractTextFieldsFromObject(obj, { locale, textFields })
extractTextFieldsFromObject(obj, locale, textFields) ==
  IF obj.type = "object"
    THEN Flatten([i \in 1..Len(obj.entries) |->
                    EntryTexts(obj, obj.entries[i], locale, textFields)])
    ELSE << >>

RECURSIVE Distinct(_)
\* [...new Set(list)]: the list without the later copies of an element.
Distinct(list) ==
  IF list = << >> THEN << >>
  ELSE LET front == Distinct(SubSeq(list, 1, Len(list) - 1))
       IN IF \E i \in 1..Len(front) : front[i] = list[Len(list)]
            THEN front ELSE Append(front, list[Len(list)])

\* AllTextFields with the caller's fields taking the place of the defaults.
AllTextFieldsReplacingDefaults(textFields) ==
  IF textFields = << >> THEN DEFAULT_TEXT_FIELDS ELSE Distinct(textFields)

\* Line 174: [...new Set([...DEFAULT_TEXT_FIELDS, ...textFields])]
AllTextFields(textFields) == Distinct(DEFAULT_TEXT_FIELDS \o textFields)

\* A raw result: id is a string of code units; name and data are values, data
\* an object with title, url, path and blocks among its properties when present.
RawResult(id, name, data) == [id |-> id, name |-> name, data |-> data]

\* result.data?.key
DataOf(result, key) ==
  IF result.data.type = "object" THEN Get(result.data, key) ELSE Undefined

\* PageTitle with the name taken before the title of the data.
PageTitleNameFirst(result) ==
  ToStringOf(OrElse(OrElse(result.name, DataOf(result, "title")),
                    StringValue(<<"P", "a", "g", "e", "-">> \o result.id)))

\* Line 179: result.data?.title || result.name || `Page-${result.id}`
PageTitle(result) ==
  ToStringOf(OrElse(OrElse(DataOf(result, "title"), result.name),
                    StringValue(<<"P", "a", "g", "e", "-">> \o result.id)))

\* PageUrl with the path taken before the url.
PageUrlPathFirst(result) ==
  ToStringOf(OrElse(OrElse(DataOf(result, "path"), DataOf(result, "url")),
                    StringValue(<<"#">>)))

\* Line 180: result.data?.url || result.data?.path || "#"
PageUrl(result) ==
  ToStringOf(OrElse(OrElse(DataOf(result, "url"), DataOf(result, "path")),
                    StringValue(<<"#">>)))

\* Lines 181-183: the texts of the result's blocks, none when it has no blocks.
PageTexts(result, locale, textFields) ==
  IF Truthy(DataOf(result, "blocks"))
    THEN extractTextFieldsFromObject(DataOf(result, "blocks"), locale, textFields)
    ELSE << >>

\* Lines 186-190: the page pushed for a result.
PageOf(result, texts) ==
  [title |-> PageTitle(result), url |-> PageUrl(result), content |-> texts]


----------------------------------------------------------------------------
(* The inputs of fetchBuilderContent, extractBuilderContent and a client *)

\* An array: an object whose keys are the indices.
ArrayValue(items) ==
  ObjectValue([i \in 1..Len(items) |-> Entry(ToString(i - 1), items[i])])

\* A localized value with the given texts by locale.
LocalizedValue(texts) ==
  ObjectValue(<< Entry("@type", StringValue(LocalizedValueType)) >> \o texts)

Bonjour == <<"B", "o", "n", "j", "o", "u", "r">>
Hallo == <<"H", "a", "l", "l", "o">>
Hello == <<"H", "e", "l", "l", "o">>

\* Localized values that have a text for: fr, de and Default; fr and Default;
\* fr only; Default only; de (empty) and Default; en only.
LocalizedPool ==
  << LocalizedValue(<< Entry("fr", StringValue(Bonjour)), Entry("de", StringValue(Hallo)),
                       Entry("Default", StringValue(Hello)) >>),
     LocalizedValue(<< Entry("fr", StringValue(Bonjour)), Entry("Default", StringValue(Hello)) >>),
     LocalizedValue(<< Entry("fr", StringValue(Bonjour)) >>),
     LocalizedValue(<< Entry("Default", StringValue(Hello)) >>),
     LocalizedValue(<< Entry("de", StringValue(<< >>)), Entry("Default", StringValue(Hello)) >>),
     LocalizedValue(<< Entry("en", StringValue(Hello)) >>) >>

\* Blocks that hold one localized value, as the text of a component.
LocalizedBlocks(value) == ArrayValue(<< ObjectValue(<< Entry("text", value) >>) >>)

\* Blocks with one text.
SimpleBlocks == ArrayValue(<< ObjectValue(<< Entry("text", StringValue(<<"H", "i">>)) >>) >>)

\* Blocks with strings under default field names, under other names, with
\* markup and entities, with a number and with nested objects.
RichBlocks ==
  ArrayValue(<<
    ObjectValue(<< Entry("text", StringValue(<<"H", "i", " ", "<", "b", ">", "x", "<", "/", "b", ">">>)),
                   Entry("subtitle", StringValue(<<"S", "u", "b">>)),
                   Entry("other", StringValue(<<"O", "t", "h", "e", "r">>)),
                   Entry("count", NumberValue),
                   Entry("nested", ObjectValue(<< Entry("title", StringValue(<<"I", "n">>)),
                                                  Entry("description", StringValue(<< >>)),
                                                  Entry("label", StringValue(<<"L", "a", "b">>)) >>)) >>),
    ObjectValue(<< Entry("textContent", StringValue(<<"&", "a", "m", "p", ";", "l", "t", ";", "i", "&", "a", "m", "p", ";", "g", "t", ";">>)),
                   Entry("children",
                         ArrayValue(<< ObjectValue(<< Entry("text", StringValue(<<"D", "e", "e", "p">>)) >>) >>)) >>) >>)

\* Blocks with no string under a default field name.
OtherBlocks ==
  ArrayValue(<< ObjectValue(<< Entry("other", StringValue(<<"O", "t", "h", "e", "r">>)),
                               Entry("label", StringValue(<<"L", "a", "b">>)) >>) >>)

\* The data of a result: the properties that are given, and the blocks.
DataValue(props, blocks) == ObjectValue(props \o << Entry("blocks", blocks) >>)

TitleT == Entry("title", StringValue(<<"T">>))
TitleEmpty == Entry("title", StringValue(<< >>))
UrlU == Entry("url", StringValue(<<"/", "u">>))
UrlEmpty == Entry("url", StringValue(<< >>))
PathP == Entry("path", StringValue(<<"/", "p">>))
PathEmpty == Entry("path", StringValue(<< >>))
NameN == StringValue(<<"N">>)

\* Results with the title, the name, the url and the path present, empty or
\* missing in turn.
MetaResults ==
  << RawResult(<<"1">>, NameN, DataValue(<< TitleT, UrlU, PathP >>, SimpleBlocks)),
     RawResult(<<"2">>, NameN, DataValue(<< TitleEmpty, UrlEmpty, PathP >>, SimpleBlocks)),
     RawResult(<<"3">>, NameN, DataValue(<< PathP >>, SimpleBlocks)),
     RawResult(<<"4">>, Undefined, DataValue(<< >>, SimpleBlocks)),
     RawResult(<<"5">>, Undefined, DataValue(<< TitleT, UrlU >>, SimpleBlocks)),
     RawResult(<<"6">>, StringValue(<< >>),
               DataValue(<< TitleEmpty, UrlEmpty, PathEmpty >>, SimpleBlocks)) >>

\* Results with rich blocks, with blocks that yield no text, without blocks
\* and without data.
RichResult == RawResult(<<"7">>, NameN, DataValue(<< TitleT, UrlU >>, RichBlocks))
OtherResult == RawResult(<<"8">>, NameN, DataValue(<< TitleT, UrlU >>, OtherBlocks))
NoBlocksResult == RawResult(<<"9">>, NameN, ObjectValue(<< TitleT, UrlU >>))
NoDataResult == RawResult(<<"1", "0">>, NameN, Undefined)

\* Result i of the localized pool.
LocalizedResult(i) ==
  RawResult(<<"2", ToString(i)>>, NameN,
            DataValue(<< PathP >>, LocalizedBlocks(LocalizedPool[i])))

\* The lists of raw results a call is given.
ResultLists ==
  { << >> }
  \cup { << MetaResults[i] >> : i \in 1..Len(MetaResults) }
  \cup { << LocalizedResult(i) >> : i \in 1..Len(LocalizedPool) }
  \cup { << RichResult >>, << OtherResult >>, << NoBlocksResult >>, << NoDataResult >>,
         << MetaResults[1], NoDataResult, RichResult >>,
         << OtherResult, LocalizedResult(2), MetaResults[4] >> }

\* A value that is thrown: an Error with a message, a string, or null.
Thrown(kind, message) == [kind |-> kind, message |-> message]
ThrownError == Thrown("Error", << "boom" >>)
ThrownString == Thrown("string", << >>)
ThrownNull == Thrown("null", << >>)
ThrownValues == { ThrownError, ThrownString, ThrownNull }

\* What the network does in a call: fetchImplementation throws (or rejects),
\* resolves to undefined, or resolves to a response with ok and status whose
\* json() throws or resolves to null, to an object without results, to an object
\* whose results are not an array, or to an object with results.
Network(fetch, thrown, ok, json, list) ==
  [fetch |-> fetch, thrown |-> thrown, ok |-> ok, status |-> IF ok THEN "200" ELSE "500",
   json |-> json, results |-> list]

Networks ==
  { Network("throws", t, FALSE, "null", << >>) : t \in ThrownValues }
  \cup { Network("undefined", ThrownNull, FALSE, "null", << >>) }
  \cup { Network("responds", ThrownNull, FALSE, "results", << MetaResults[1] >>) }
  \cup { Network("responds", t, TRUE, "throws", << >>) : t \in ThrownValues }
  \cup { Network("responds", ThrownNull, TRUE, j, << >>) : j \in {"null", "noResults", "notArray"} }
  \cup { Network("responds", ThrownNull, TRUE, "results", list) : list \in ResultLists }

\* The content transformers a caller supplies: one that reverses the pages and
\* one that adds a page with the ids of the raw results.
Transformers == { "reverse", "appendRawIds" }

RECURSIVE Reverse(_)
Reverse(list) == IF list = << >> THEN << >> ELSE Reverse(Tail(list)) \o << Head(list) >>

\* contentTransformer(content, rawResults) for the transformer named t.
ApplyTransformer(t, pages, rawResults) ==
  IF t = "reverse" THEN Reverse(pages)
  ELSE Append(pages, [title |-> <<"r", "a", "w">>, url |-> <<"#">>,
                      content |-> [i \in 1..Len(rawResults) |-> rawResults[i].id]])

\* The options of a call: those of createBuilderClient and of the call made on
\* the client when the entry is through a client.
CallOptionSets ==
  [ locale : { Omitted(""), Given("fr"), Given("de") },
    defaultLocale : { Omitted(""), Given("fr") },
    apiUrl : { Omitted(""), Given("https://cms.example/api") },
    textFields : { Omitted(<< >>), Given(<< "subtitle" >>), Given(<< "text", "label" >>) },
    contentTransformer : { Omitted("") } \cup { Given(t) : t \in Transformers },
    fetchImplementation : { Omitted(""), Given("custom") } ]

ApiKeys == { << >>, <<"k", "e", "y">> }


----------------------------------------------------------------------------
(* fetchBuilderContent, extractBuilderContent and the client of            *)
(* builder-integration.ts, step by step.  entry is the function the caller *)
(* calls: fetchBuilderContent or extractBuilderContent directly, or        *)
(* createBuilderClient followed by fetchTextContent or extractContent.     *)
(* network.results are the raw results: those of the response, or those    *)
(* the caller passes to extractBuilderContent and extractContent.          *)

Entries == { "fetchBuilderContent", "extractBuilderContent", "fetchTextContent", "extractContent" }

ViaClient == entry \in { "fetchTextContent", "extractContent" }

\* A destructured option with its default.
ValueOr(option, default) == IF option.given THEN option.value ELSE default

DefaultApiUrl == "https://cdn.builder.io/api/v3/content"

MissingKeyError == [name |-> "Error", message |-> << "Builder.io API key is required" >>]

\* A check of the key that lets every key pass.
MissingKeyNeverFound(key) == key = << >> /\ FALSE

\* !apiKey
MissingKey(key) == key = << >>

\* A validation of the client's key that lets every key pass.
ClientKeyMissingNeverFound(key) == key = << >> /\ FALSE

\* createBuilderClient: !apiKey
ClientKeyMissing(key) == key = << >>

\* The catch clause of fetchBuilderContent: a new Error whose message is the
\* prefix and error.message.  Reading .message of null throws a TypeError out
\* of the catch clause; a string has no message.
Rethrow(error) ==
  IF error.kind = "null"
    THEN [name |-> "TypeError",
          message |-> << "Cannot read properties of null (reading 'message')" >>]
    ELSE [name |-> "Error",
          message |-> << "Failed to fetch content: " >>
                      \o (IF error.kind = "Error" THEN error.message ELSE << "undefined" >>)]

Rejected(error) == [kind |-> "rejected", error |-> error, value |-> << >>]
Threw(error) == [kind |-> "threw", error |-> error, value |-> << >>]
ReturnedValue(value) == [kind |-> "returned", error |-> NoError, value |-> value]

\* The arguments fetchBuilderContent and extractBuilderContent are called with.
KeyOf == IF ViaClient THEN client.apiKey ELSE apiKey
LocaleOf == IF ViaClient THEN client.locale ELSE ValueOr(callOptions.locale, "us-en")

\* The textFields of a client that keeps none of those given at creation.
TextFieldsOfDefaultsOnly == IF ViaClient THEN << >> ELSE ValueOr(callOptions.textFields, << >>)

\* textFields, as extractBuilderContent destructures it.
TextFieldsOf == IF ViaClient THEN client.textFields ELSE ValueOr(callOptions.textFields, << >>)
ApiUrlOf == ValueOr(IF ViaClient THEN client.apiUrl ELSE callOptions.apiUrl, DefaultApiUrl)
FetchImplementationOf ==
  ValueOr(IF ViaClient THEN client.fetchImplementation ELSE callOptions.fetchImplementation,
          "fetch")

\* A test of the transformer that finds none.
HasTransformerNever(opts) == opts.contentTransformer.given /\ FALSE

\* typeof contentTransformer === 'function'
HasTransformer(opts) == opts.contentTransformer.given

ExtractInit ==
  /\ SearchIdle /\ content = << >> /\ MetadataIdle /\ CleanIdle
  /\ entry \in Entries
  /\ apiKey \in ApiKeys
  /\ callOptions \in CallOptionSets
  /\ network \in Networks
  /\ ~ViaClient => ~callOptions.defaultLocale.given
  /\ entry \in { "extractBuilderContent", "extractContent" }
       => network.fetch = "responds" /\ network.ok /\ network.json = "results"
  /\ entry = "extractBuilderContent"
       => apiKey = << >> /\ ~callOptions.apiUrl.given /\ ~callOptions.fetchImplementation.given
  /\ builderResults = << >>
  /\ client = NoClient
  /\ step = "idle"
  /\ fetchCalls = << >>
  /\ jsonCalls = 0
  /\ resultIdx = 0
  /\ pageTexts = << >>
  /\ formattedContent = << >>
  /\ transformerCalls = << >>
  /\ settled = Pending
  /\ callCount = 1

\* createBuilderClient with an empty apiKey.
CreateClientThrows ==
  /\ step = "idle" /\ ViaClient
  /\ ClientKeyMissing(apiKey)
  /\ settled' = Threw(MissingKeyError)
  /\ step' = "done"
  /\ UNCHANGED << searchVars, metadataVars, cleanVars, callCount, entry, apiKey, callOptions, network,
                  builderResults, client, fetchCalls, jsonCalls, resultIdx, pageTexts,
                  formattedContent, transformerCalls >>

\* createBuilderClient returns a client that holds its options.
CreateClient ==
  /\ step = "idle" /\ ViaClient
  /\ ~ClientKeyMissing(apiKey)
  /\ client' = [exists |-> TRUE,
                apiKey |-> apiKey,
                locale |-> ValueOr(callOptions.locale, "Default"),
                defaultLocale |-> ValueOr(callOptions.defaultLocale, "Default"),
                apiUrl |-> callOptions.apiUrl,
                textFields |-> ValueOr(callOptions.textFields, << >>),
                fetchImplementation |-> callOptions.fetchImplementation]
  /\ step' = "client"
  /\ UNCHANGED << searchVars, metadataVars, cleanVars, callCount, entry, apiKey, callOptions, network,
                  builderResults, fetchCalls, jsonCalls, resultIdx, pageTexts,
                  formattedContent, transformerCalls, settled >>

\* client.fetchTextContent calls fetchBuilderContent.
FetchTextContent ==
  /\ step = "client" /\ entry = "fetchTextContent"
  /\ step' = "called"
  /\ UNCHANGED << searchVars, metadataVars, cleanVars, callCount, entry, apiKey, callOptions, network,
                  builderResults, client, fetchCalls, jsonCalls, resultIdx, pageTexts,
                  formattedContent, transformerCalls, settled >>

\* The caller calls fetchBuilderContent.
CallFetchBuilderContent ==
  /\ step = "idle" /\ entry = "fetchBuilderContent"
  /\ step' = "called"
  /\ UNCHANGED << searchVars, metadataVars, cleanVars, callCount, entry, apiKey, callOptions, network,
                  builderResults, client, fetchCalls, jsonCalls, resultIdx, pageTexts,
                  formattedContent, transformerCalls, settled >>

\* fetchBuilderContent with an empty apiKey.
RejectMissingKey ==
  /\ step = "called"
  /\ MissingKey(KeyOf)
  /\ settled' = Rejected(MissingKeyError)
  /\ step' = "done"
  /\ UNCHANGED << searchVars, metadataVars, cleanVars, callCount, entry, apiKey, callOptions, network,
                  builderResults, client, fetchCalls, jsonCalls, resultIdx, pageTexts,
                  formattedContent, transformerCalls >>

\* fetchBuilderContent builds the URL and calls fetchImplementation.  The call
\* is recorded with the parts the URL is built from.
Request ==
  /\ step = "called"
  /\ ~MissingKey(KeyOf)
  /\ fetchCalls' = Append(fetchCalls, [apiUrl |-> ApiUrlOf, model |-> "page", apiKey |-> KeyOf,
                                       limit |-> "100", via |-> FetchImplementationOf])
  /\ step' = "awaitingResponse"
  /\ UNCHANGED << searchVars, metadataVars, cleanVars, callCount, entry, apiKey, callOptions, network,
                  builderResults, client, jsonCalls, resultIdx, pageTexts,
                  formattedContent, transformerCalls, settled >>

\* fetchImplementation throws or rejects.
FetchThrows ==
  /\ step = "awaitingResponse"
  /\ network.fetch = "throws"
  /\ settled' = Rejected(Rethrow(network.thrown))
  /\ step' = "done"
  /\ UNCHANGED << searchVars, metadataVars, cleanVars, callCount, entry, apiKey, callOptions, network,
                  builderResults, client, fetchCalls, jsonCalls, resultIdx, pageTexts,
                  formattedContent, transformerCalls >>

\* fetchImplementation resolves to undefined: reading response.ok throws.
ResponseUndefined ==
  /\ step = "awaitingResponse"
  /\ network.fetch = "undefined"
  /\ settled' = Rejected(Rethrow(Thrown("Error",
                   << "Cannot read properties of undefined (reading 'ok')" >>)))
  /\ step' = "done"
  /\ UNCHANGED << searchVars, metadataVars, cleanVars, callCount, entry, apiKey, callOptions, network,
                  builderResults, client, fetchCalls, jsonCalls, resultIdx, pageTexts,
                  formattedContent, transformerCalls >>

\* The response is not OK.
ResponseNotOk ==
  /\ step = "awaitingResponse"
  /\ network.fetch = "responds" /\ ~network.ok
  /\ settled' = Rejected(Rethrow(Thrown("Error",
                   << "API request failed with status ", network.status >>)))
  /\ step' = "done"
  /\ UNCHANGED << searchVars, metadataVars, cleanVars, callCount, entry, apiKey, callOptions, network,
                  builderResults, client, fetchCalls, jsonCalls, resultIdx, pageTexts,
                  formattedContent, transformerCalls >>

\* The response is OK: response.json() is called.
ParseJson ==
  /\ step = "awaitingResponse"
  /\ network.fetch = "responds" /\ network.ok
  /\ jsonCalls' = jsonCalls + 1
  /\ step' = "awaitingJson"
  /\ UNCHANGED << searchVars, metadataVars, cleanVars, callCount, entry, apiKey, callOptions, network,
                  builderResults, client, fetchCalls, resultIdx, pageTexts,
                  formattedContent, transformerCalls, settled >>

\* response.json() throws or rejects.
JsonThrows ==
  /\ step = "awaitingJson"
  /\ network.json = "throws"
  /\ settled' = Rejected(Rethrow(network.thrown))
  /\ step' = "done"
  /\ UNCHANGED << searchVars, metadataVars, cleanVars, callCount, entry, apiKey, callOptions, network,
                  builderResults, client, fetchCalls, jsonCalls, resultIdx, pageTexts,
                  formattedContent, transformerCalls >>

\* The body is null: reading data.results throws.
DataNull ==
  /\ step = "awaitingJson"
  /\ network.json = "null"
  /\ settled' = Rejected(Rethrow(Thrown("Error",
                   << "Cannot read properties of null (reading 'results')" >>)))
  /\ step' = "done"
  /\ UNCHANGED << searchVars, metadataVars, cleanVars, callCount, entry, apiKey, callOptions, network,
                  builderResults, client, fetchCalls, jsonCalls, resultIdx, pageTexts,
                  formattedContent, transformerCalls >>

\* The body has no results, or results that are not an array.
NoResults ==
  /\ step = "awaitingJson"
  /\ network.json \in { "noResults", "notArray" }
  /\ settled' = ReturnedValue(<< >>)
  /\ step' = "done"
  /\ UNCHANGED << searchVars, metadataVars, cleanVars, callCount, entry, apiKey, callOptions, network,
                  builderResults, client, fetchCalls, jsonCalls, resultIdx, pageTexts,
                  formattedContent, transformerCalls >>

\* extractBuilderContent is called: by fetchBuilderContent with data.results,
\* by the caller, or by client.extractContent.
BeginExtract ==
  /\ \/ step = "awaitingJson" /\ network.json = "results"
     \/ step = "idle" /\ entry = "extractBuilderContent"
     \/ step = "client" /\ entry = "extractContent"
  /\ builderResults' = network.results
  /\ resultIdx' = 0
  /\ formattedContent' = << >>
  /\ step' = "extracting"
  /\ UNCHANGED << searchVars, metadataVars, cleanVars, callCount, entry, apiKey, callOptions, network,
                  client, fetchCalls, jsonCalls, pageTexts, transformerCalls, settled >>

\* One turn of builderResults.forEach that pushes a page whatever the texts are.
ExtractResultPushingAlways ==
  /\ step = "extracting"
  /\ resultIdx < Len(builderResults)
  /\ resultIdx' = resultIdx + 1
  /\ pageTexts' = PageTexts(builderResults[resultIdx + 1], LocaleOf, AllTextFields(TextFieldsOf))
  /\ formattedContent' =
       Append(formattedContent, PageOf(builderResults[resultIdx + 1], pageTexts'))
  /\ UNCHANGED << searchVars, metadataVars, cleanVars, callCount, entry, apiKey, callOptions, network,
                  builderResults, client, step, fetchCalls, jsonCalls, transformerCalls,
                  settled >>

\* One turn of builderResults.forEach.
ExtractResult ==
  /\ step = "extracting"
  /\ resultIdx < Len(builderResults)
  /\ resultIdx' = resultIdx + 1
  /\ pageTexts' = PageTexts(builderResults[resultIdx + 1], LocaleOf, AllTextFields(TextFieldsOf))
  /\ formattedContent' =
       IF Len(pageTexts') > 0
         THEN Append(formattedContent, PageOf(builderResults[resultIdx + 1], pageTexts'))
         ELSE formattedContent
  /\ UNCHANGED << searchVars, metadataVars, cleanVars, callCount, entry, apiKey, callOptions, network,
                  builderResults, client, step, fetchCalls, jsonCalls, transformerCalls,
                  settled >>

\* After the loop, with a contentTransformer: it is called and its result is
\* returned.
ReturnTransformed ==
  /\ step = "extracting"
  /\ resultIdx = Len(builderResults)
  /\ HasTransformer(callOptions)
  /\ transformerCalls' = Append(transformerCalls,
                                [content |-> formattedContent, rawResults |-> builderResults])
  /\ formattedContent' = ApplyTransformer(callOptions.contentTransformer.value,
                                          formattedContent, builderResults)
  /\ settled' = ReturnedValue(formattedContent')
  /\ step' = "done"
  /\ UNCHANGED << searchVars, metadataVars, cleanVars, callCount, entry, apiKey, callOptions, network,
                  builderResults, client, fetchCalls, jsonCalls, resultIdx, pageTexts >>

\* After the loop, without a contentTransformer.
ReturnExtracted ==
  /\ step = "extracting"
  /\ resultIdx = Len(builderResults)
  /\ ~HasTransformer(callOptions)
  /\ settled' = ReturnedValue(formattedContent)
  /\ step' = "done"
  /\ UNCHANGED << searchVars, metadataVars, cleanVars, callCount, entry, apiKey, callOptions, network,
                  builderResults, client, fetchCalls, jsonCalls, resultIdx, pageTexts,
                  formattedContent, transformerCalls >>

ExtractNext ==
  \/ CreateClientThrows
  \/ CreateClient
  \/ FetchTextContent
  \/ CallFetchBuilderContent
  \/ RejectMissingKey
  \/ Request
  \/ FetchThrows
  \/ ResponseUndefined
  \/ ResponseNotOk
  \/ ParseJson
  \/ JsonThrows
  \/ DataNull
  \/ NoResults
  \/ BeginExtract
  \/ ExtractResult
  \/ ReturnTransformed
  \/ ReturnExtracted

ExtractSpec == ExtractInit /\ [][ExtractNext]_vars


----------------------------------------------------------------------------
(* builder-integration.ts: generateMetadataFromContent *)

\* A page of extracted content.
ContentPage(title, texts) == [title |-> title, url |-> << "/" >>, content |-> texts]

\* The contents metadata is generated from: none, pages with texts, a page whose
\* first text is empty and a page without texts.
MetadataContents ==
  { << >>,
    << ContentPage(<<"A", "b", "o", "u", "t">>, << <<"H", "i", " ", "x">>, <<"y">> >>) >>,
    << ContentPage(<<"A", "b", "o", "u", "t">>, << << >>, <<"y">> >>) >>,
    << ContentPage(<<"A", "b", "o", "u", "t">>, << >>) >>,
    << ContentPage(<< >>, << <<"H", "i", " ", "x">> >>) >>,
    << ContentPage(<<"A", "b", "o", "u", "t">>, << <<"H", "i", " ", "x">> >>), ContentPage(<<"B", "l", "o", "g">>, << <<"z">> >>) >>,
    << ContentPage(<<"B", "l", "o", "g">>, << >>), ContentPage(<<"A", "b", "o", "u", "t">>, << <<"H", "i", " ", "x">> >>) >> }

MetadataOptionSets ==
  [ defaultTitle : { Omitted(<< >>), Given(<< >>), Given(<<"S", "i", "t", "e">>) },
    titlePrefix : { Omitted(<< >>), Given(<<">", " ">>) },
    titleSuffix : { Omitted(<< >>), Given(<<" ", "|", " ", "B">>) },
    defaultDescription : { Omitted(<< >>), Given(<<"D", "e", "s", "c">>) } ]

\* generateMetadataFromContent with the first text taken as it is.
generateMetadataWithFirstTextAsIs(pages, opts) ==
  LET firstPage == IF Len(pages) > 0 THEN << pages[1] >> ELSE << >>
      pageTitle == IF firstPage # << >> THEN firstPage[1].title
                   ELSE ValueOr(opts.defaultTitle, <<"H", "o", "m", "e">>)
      description == IF firstPage # << >> /\ Len(firstPage[1].content) > 0
                       THEN firstPage[1].content[1]
                       ELSE ValueOr(opts.defaultDescription, << >>)
      title == ValueOr(opts.titlePrefix, << >>) \o pageTitle \o ValueOr(opts.titleSuffix, << >>)
  IN [title |-> title, description |-> description,
      openGraph |-> [title |-> title, description |-> description]]

\* Lines 150-185.  firstPage is a list of at most one page (null is the empty
\* list); a text is false when it is the empty string.
generateMetadataFromContent(pages, opts) ==
  LET firstPage == IF Len(pages) > 0 THEN << pages[1] >> ELSE << >>
      pageTitle == IF firstPage # << >> THEN firstPage[1].title
                   ELSE ValueOr(opts.defaultTitle, <<"H", "o", "m", "e">>)
      defaultDescription == ValueOr(opts.defaultDescription, << >>)
      description == IF firstPage # << >> /\ Len(firstPage[1].content) > 0
                       THEN IF firstPage[1].content[1] # << >>
                              THEN firstPage[1].content[1]
                              ELSE defaultDescription
                       ELSE defaultDescription
      title == ValueOr(opts.titlePrefix, << >>) \o pageTitle \o ValueOr(opts.titleSuffix, << >>)
  IN [title |-> title, description |-> description,
      openGraph |-> [title |-> title, description |-> description]]

MetadataInit ==
  /\ SearchIdle /\ ExtractIdle /\ CleanIdle
  /\ content \in MetadataContents
  /\ metadataOptions \in MetadataOptionSets
  /\ metadata = << >>

\* The caller calls generateMetadataFromContent.
GenerateMetadata ==
  /\ metadata = << >>
  /\ metadata' = generateMetadataFromContent(content, metadataOptions)
  /\ UNCHANGED << searchVars, extractVars, cleanVars, metadataOptions >>

MetadataSpec == MetadataInit /\ [][GenerateMetadata]_vars


----------------------------------------------------------------------------
(* The two cleanText functions applied to a text: cleanText of             *)
(* utils/textCleaner.ts, and the cleanText that utils/extractBuilderContent.ts *)
(* keeps for itself.                                                       *)

\* How many pieces a text is put together from at most.
MaxRawPieces == 3

\* The pieces: entities, named, decimal and hexadecimal; what is left of an
\* entity once its ampersand is taken; a tag; angle brackets; markers; spaces
\* and a line feed; a letter.
RawPieces ==
  { <<"&", "l", "t", ";">>, <<"&", "g", "t", ";">>, <<"&", "a", "m", "p", ";">>, <<"l", "t", ";">>, <<"&", "n", "b", "s", "p", ";">>, <<"&", "#", "3", "2", ";">>, <<"&", "#", "1", "0", ";">>, <<"&", "#", "x", "3", "C", ";">>,
    <<"<", "b", ">">>, <<"<">>, <<">">>, <<"a">>, <<" ">>, <<"*">>, <<"*", "*">>, <<"_">>, << "#10" >> }

RawTexts ==
  { Flatten(pieces) : pieces \in UNION { [1..n -> RawPieces] : n \in 0..MaxRawPieces } }

CleanInit ==
  /\ SearchIdle /\ content = << >> /\ ExtractIdle /\ MetadataIdle
  /\ rawText \in RawTexts
  /\ cleanResult = << >>

\* cleanText of utils/textCleaner.ts is called with the text.
CleanText ==
  /\ cleanResult = << >>
  /\ cleanResult' = [by |-> "textCleaner", text |-> cleanText(rawText)]
  /\ UNCHANGED << searchVars, extractVars, metadataVars, rawText >>

\* cleanText of utils/extractBuilderContent.ts is called with the text.
ExtractCleanText ==
  /\ cleanResult = << >>
  /\ cleanResult' = [by |-> "extractBuilderContent", text |-> extractCleanText(rawText)]
  /\ UNCHANGED << searchVars, extractVars, metadataVars, rawText >>

CleanNext == CleanText \/ ExtractCleanText

CleanSpec == CleanInit /\ [][CleanNext]_vars


----------------------------------------------------------------------------
(* extractBuilderContent and fetchBuilderContent as functions of their     *)
(* arguments, and a client that is called again and again.                 *)

RECURSIVE ExtractedPages(_, _, _)
\* Lines 175-192: the pages pushed by the forEach over the raw results.
ExtractedPages(rawResults, locale, textFields) ==
  IF rawResults = << >> THEN << >>
  ELSE LET front == ExtractedPages(SubSeq(rawResults, 1, Len(rawResults) - 1), locale, textFields)
           last == rawResults[Len(rawResults)]
       IN IF Len(PageTexts(last, locale, textFields)) > 0
            THEN Append(front, PageOf(last, PageTexts(last, locale, textFields)))
            ELSE front

\* What extractBuilderContent(rawResults, {locale, textFields, contentTransformer})
\* returns, for the options after their defaults.
extractBuilderContent(rawResults, locale, textFields, transformer) ==
  IF transformer.given
    THEN ApplyTransformer(transformer.value,
                          ExtractedPages(rawResults, locale, AllTextFields(textFields)),
                          rawResults)
    ELSE ExtractedPages(rawResults, locale, AllTextFields(textFields))

\* How fetchBuilderContent(key, {locale, textFields, contentTransformer}) settles
\* when the network behaves as net, for the options after their defaults.
fetchBuilderContent(key, locale, textFields, transformer, net) ==
  IF MissingKey(key) THEN Rejected(MissingKeyError)
  ELSE IF net.fetch = "throws" THEN Rejected(Rethrow(net.thrown))
  ELSE IF net.fetch = "undefined"
    THEN Rejected(Rethrow(Thrown("Error",
                                 << "Cannot read properties of undefined (reading 'ok')" >>)))
  ELSE IF ~net.ok
    THEN Rejected(Rethrow(Thrown("Error", << "API request failed with status ", net.status >>)))
  ELSE IF net.json = "throws" THEN Rejected(Rethrow(net.thrown))
  ELSE IF net.json = "null"
    THEN Rejected(Rethrow(Thrown("Error",
                                 << "Cannot read properties of null (reading 'results')" >>)))
  ELSE IF net.json \in { "noResults", "notArray" } THEN ReturnedValue(<< >>)
  ELSE ReturnedValue(extractBuilderContent(net.results, locale, textFields, transformer))

\* How many calls are made on a client at most.
MaxCalls == 2

\* The options a client is created with.
ClientOptionSets ==
  { o \in CallOptionSets :
      /\ o.locale \in { Omitted(""), Given("fr") }
      /\ o.textFields \in { Omitted(<< >>), Given(<< "text", "label" >>) }
      /\ ~o.contentTransformer.given }

\* What the network does in a call made on the client.
ClientNetworks ==
  { Network("throws", ThrownError, FALSE, "null", << >>),
    Network("responds", ThrownNull, FALSE, "results", << MetaResults[1] >>),
    Network("responds", ThrownNull, TRUE, "noResults", << >>),
    Network("responds", ThrownNull, TRUE, "results", << RichResult >>),
    Network("responds", ThrownNull, TRUE, "results",
            << OtherResult, LocalizedResult(2), MetaResults[4] >>) }

\* The transformers given to a call made on the client.
ClientTransformers == { Omitted(""), Given("reverse") }

\* A call of fetchTextContent or extractContent with its own options; the raw
\* results given to extractContent are those of network.
ClientCall(e, o, net) ==
  /\ e \in { "fetchTextContent", "extractContent" }
  /\ o \in ClientTransformers
  /\ net \in ClientNetworks
  /\ e = "extractContent" => net.fetch = "responds" /\ net.ok /\ net.json = "results"

ClientInit ==
  /\ SearchIdle /\ content = << >> /\ MetadataIdle /\ CleanIdle
  /\ apiKey \in ApiKeys
  /\ \E created \in ClientOptionSets : \E o \in ClientTransformers :
       callOptions = [created EXCEPT !.contentTransformer = o]
  /\ ClientCall(entry, callOptions.contentTransformer, network)
  /\ builderResults = << >>
  /\ client = NoClient
  /\ step = "idle"
  /\ fetchCalls = << >>
  /\ jsonCalls = 0
  /\ resultIdx = 0
  /\ pageTexts = << >>
  /\ formattedContent = << >>
  /\ transformerCalls = << >>
  /\ settled = Pending
  /\ callCount = 1

\* The caller makes another call on the client, after the call before has
\* settled: what the calls have left is all the state there is, and what is
\* recorded of a call starts anew.
NextCall ==
  /\ step = "done" /\ client.exists
  /\ callCount < MaxCalls
  /\ callCount' = callCount + 1
  /\ \E e \in Entries : \E o \in ClientTransformers : \E net \in ClientNetworks :
       /\ ClientCall(e, o, net)
       /\ entry' = e
       /\ callOptions' = [callOptions EXCEPT !.contentTransformer = o]
       /\ network' = net
  /\ step' = "client"
  /\ builderResults' = << >>
  /\ fetchCalls' = << >>
  /\ jsonCalls' = 0
  /\ resultIdx' = 0
  /\ pageTexts' = << >>
  /\ formattedContent' = << >>
  /\ transformerCalls' = << >>
  /\ settled' = Pending
  /\ UNCHANGED << searchVars, metadataVars, cleanVars, apiKey, client >>

\* The key of a client is never empty, so the rejection of fetchBuilderContent
\* for a missing key has no part here.
ClientSpec ==
  ClientInit /\ [][ \/ CreateClientThrows
                    \/ CreateClient
                    \/ FetchTextContent
                    \/ Request
                    \/ FetchThrows
                    \/ ResponseNotOk
                    \/ ParseJson
                    \/ NoResults
                    \/ BeginExtract
                    \/ ExtractResult
                    \/ ReturnTransformed
                    \/ ReturnExtracted
                    \/ NextCall ]_vars

----------------------------------------------------------------------------
(* The claims *)

\* The call has returned.
Returned == pc = "done"

\* C1: the returned results are sorted by relevance: each result's matchScore
\* is greater than or equal to the matchScore of the result that follows it.
C1_SortedByRelevance ==
  Returned =>
    \A i \in 1..(Len(returned) - 1) :
      returned[i].matchScore.num * returned[i + 1].matchScore.den
        >= returned[i + 1].matchScore.num * returned[i].matchScore.den

\* A call has returned two results of different scores which were found in the
\* other order.
C1_Witness ==
  /\ Returned
  /\ Len(returned) >= 2
  /\ returned # results
  /\ \E i \in 1..(Len(returned) - 1) : returned[i].matchScore # returned[i + 1].matchScore

\* C2: every returned result has matchScore >= minScore, minScore being 0.1
\* (1/10) when the option is omitted.
C2_AtLeastMinScore ==
  Returned =>
    \A i \in 1..Len(returned) :
      IF options.minScore.given
        THEN returned[i].matchScore.num * options.minScore.value.den
               >= options.minScore.value.num * returned[i].matchScore.den
        ELSE returned[i].matchScore.num * 10 >= returned[i].matchScore.den

\* A call without a minScore option has returned a result and has dropped
\* another that scored below 0.1.
C2_Witness ==
  /\ Returned
  /\ ~options.minScore.given
  /\ Len(returned) >= 1
  /\ \E i \in 1..Len(results) : results[i].matchScore.num * 10 < results[i].matchScore.den

\* The search term after cleaning, as the search looks for it.
CleanedTerm == cleanText(searchTerm)

\* The 0-based positions of a text's code units.
Positions(text) == 0..(Len(text) - 1)

\* The code unit at 0-based position p of text.
CharAt(text, p) == text[p + 1]

\* Two code units are the same letter in either case.
SameLetter(c, d) ==
  \/ c = d
  \/ \E k \in 1..Len(UpperLetters) :
       {c, d} = {UpperLetters[k], LowerLetters[k]}

\* Two strings differ in letter case only.
SameUpToCase(a, b) ==
  /\ Len(a) = Len(b)
  /\ \A k \in 1..Len(a) : SameLetter(a[k], b[k])

\* The term is found in text at position p, in the case the options ask for.
TermAt(text, p) ==
  /\ p >= 0
  /\ p + Len(CleanedTerm) <= Len(text)
  /\ IF caseSensitive
       THEN SubSeq(text, p + 1, p + Len(CleanedTerm)) = CleanedTerm
       ELSE SameUpToCase(SubSeq(text, p + 1, p + Len(CleanedTerm)), CleanedTerm)

\* C3: with wholeWord true, the character immediately before matchPosition and
\* the character immediately after the matched text of every returned result,
\* when they exist in the result's text, are not word characters.
C3_WholeWordsOnly ==
  (Returned /\ wholeWord) =>
    \A i \in 1..Len(returned) :
      LET r == returned[i]
          before == r.matchPosition - 1
          after == r.matchPosition + Len(CleanedTerm)
      IN /\ before \in Positions(r.text) => CharAt(r.text, before) \notin WordChars
         /\ after \in Positions(r.text) => CharAt(r.text, after) \notin WordChars

\* The occurrence of the term at position p of text is delimited on each side
\* by white space or by the start or the end of the text.
DelimitedAt(text, p) ==
  /\ TermAt(text, p)
  /\ (p - 1) \in Positions(text) => CharAt(text, p - 1) \in WhiteSpaceChars
  /\ (p + Len(CleanedTerm)) \in Positions(text) =>
       CharAt(text, p + Len(CleanedTerm)) \in WhiteSpaceChars

\* Every delimited occurrence of the term in cleaned, a cleaned text entry of
\* page, has a result at its position.
DelimitedOccurrencesReported(page, cleaned) ==
  \A p \in Positions(cleaned) :
    DelimitedAt(cleaned, p) =>
      \E k \in 1..Len(returned) :
        /\ returned[k].pageTitle = page.title
        /\ returned[k].pageUrl = page.url
        /\ returned[k].text = cleaned
        /\ returned[k].matchPosition = p

\* C4: with wholeWord true and minScore 0, every occurrence of a non-blank term
\* in a text entry that is delimited on each side by white space or by the start
\* or the end of the text yields a result at that position.
C4_DelimitedOccurrencesFound ==
  (Returned /\ wholeWord /\ options.minScore.given /\ minScore.num = 0
     /\ CleanedTerm # << >>) =>
    \A i \in 1..Len(content) :
      content[i].isArray =>
        \A j \in 1..Len(content[i].content) :
          DelimitedOccurrencesReported(content[i], cleanText(content[i].content[j]))

\* C5: with caseSensitive false, a term and any variant of it that differs only
\* in letter case return identical result lists, in substring and in whole-word
\* mode; with caseSensitive true only occurrences in exactly the term's case are
\* reported.
C5_CaseIgnoredUnlessSensitive ==
  /\ (Returned /\ ~caseSensitive) =>
       \A variant \in Terms :
         SameUpToCase(variant, searchTerm) =>
           /\ ~Hangs(content, variant, options)
           /\ searchBuilderContent(content, variant, options) = returned
  /\ (Returned /\ caseSensitive) =>
       \A i \in 1..Len(returned) :
         SubSeq(returned[i].text, returned[i].matchPosition + 1,
                returned[i].matchPosition + Len(CleanedTerm)) = CleanedTerm

\* C6: matchPosition is the position of the match in the text: the substring of
\* a returned result's text that starts at matchPosition and has the length of
\* the cleaned term is that term, exactly when caseSensitive is true and up to
\* letter case otherwise.
C6_MatchPositionInText ==
  Returned =>
    \A i \in 1..Len(returned) : TermAt(returned[i].text, returned[i].matchPosition)

\* The matched text of result r: the characters of its text from matchPosition
\* over the length of the match.
MatchedText(r) ==
  Substring(r.text, r.matchPosition, r.matchPosition + Len(normalizedSearchTerm))

\* sub occurs somewhere in s.
Contains(s, sub) == \E p \in 0..Len(s) : OccursAt(s, sub, p)

WordStarts(text) ==
  { p \in 1..Len(text) :
      text[p] \notin WhiteSpaceChars /\ (p = 1 \/ text[p - 1] \in WhiteSpaceChars) }

\* The number of the word of text that holds the code unit at 0-based position p.
WordNumberAt(text, p) == Cardinality({ q \in WordStarts(text) : q <= p + 1 })

\* The words of an excerpt without the "..." put before and after them.
Ellipsis == << ".", ".", "." >>
ExcerptWords(excerpt) ==
  LET w == SplitWs(excerpt)
      first == IF w # << >> /\ w[1] = Ellipsis THEN 2 ELSE 1
      last == IF Len(w) >= first /\ w[Len(w)] = Ellipsis THEN Len(w) - 1 ELSE Len(w)
  IN SubSeq(w, first, last)

\* The words result r's excerpt is to show: the words of the match, ctxWords
\* words before them and ctxWords words after them, as far as the text has them.
WordsAroundMatch(r, ctxWords) ==
  LET w == SplitWs(r.text)
      first == WordNumberAt(r.text, r.matchPosition)
      last == WordNumberAt(r.text, r.matchPosition + Len(normalizedSearchTerm) - 1)
  IN SubSeq(w, Max(1, first - ctxWords), Min(Len(w), last + ctxWords))

\* C8: the excerpt of every returned result is made of the words of the match,
\* the contextWords words before it and the contextWords words after it (fewer
\* on a side only when the text has fewer there), and of no other word.
C8_ContextWordsAround ==
  Returned =>
    \A i \in 1..Len(returned) :
      ExcerptWords(returned[i].excerpt) = WordsAroundMatch(returned[i], contextWords)

\* C9: a search term that is empty or made of white space only returns an empty
\* array, and the content is never entered.
C9_BlankTermReturnsEmpty ==
  (\A i \in 1..Len(searchTerm) : searchTerm[i] \in WhiteSpaceChars) =>
    /\ pc \in {"start", "done"}
    /\ pageIdx = 0
    /\ results = << >>
    /\ Returned => returned = << >>

\* A call with a term of white space and a content that holds texts has returned.
C9_Witness ==
  /\ Returned
  /\ searchTerm # << >>
  /\ \A i \in 1..Len(searchTerm) : searchTerm[i] \in WhiteSpaceChars
  /\ \E i \in 1..Len(content) : content[i].isArray /\ content[i].content # << >>
  /\ returned = << >>

\* What tells an occurrence from another: the page's title and url, the cleaned
\* text and the position.
OccurrenceKey(r) ==
  [pageTitle |-> r.pageTitle, pageUrl |-> r.pageUrl, text |-> r.text,
   matchPosition |-> r.matchPosition]

\* The text entries of the content in which key is an occurrence of the
\* normalized term in the normalized cleaned text.
OccurrencesOf(key) ==
  { ij \in { ij \in (1..Len(content)) \X (1..2) :
               /\ content[ij[1]].isArray
               /\ ij[2] <= Len(content[ij[1]].content)
               /\ content[ij[1]].title = key.pageTitle
               /\ content[ij[1]].url = key.pageUrl } :
      /\ cleanText(content[ij[1]].content[ij[2]]) = key.text
      /\ OccursAt(NormalizedText(key.text, options),
                  NormalizedTerm(searchTerm, options), key.matchPosition) }

\* The results of a list that carry key.
ResultsWith(list, key) == { k \in 1..Len(list) : OccurrenceKey(list[k]) = key }

\* Every occurrence of the term in cleaned, a cleaned text entry of page, has
\* been returned.
OccurrencesReturned(page, cleaned, normalized) ==
  \A p \in 0..Len(normalized) :
    OccursAt(normalized, NormalizedTerm(searchTerm, options), p) =>
      \E k \in 1..Len(returned) :
        OccurrenceKey(returned[k]) =
          [pageTitle |-> page.title, pageUrl |-> page.url, text |-> cleaned,
           matchPosition |-> p]

\* C10: in substring mode with minScore 0 the results are exactly the
\* occurrences of the term: every position at which the normalized term occurs
\* in the normalized cleaned text of a text entry has exactly one result with
\* the page's title and url, the cleaned text and that position, and there is
\* no other result.
C10_ExactlyTheOccurrences ==
  (~wholeWord /\ options.minScore.given /\ minScore.num = 0) =>
    /\ \A k \in 1..Len(results) :
         Cardinality(ResultsWith(results, OccurrenceKey(results[k])))
           <= Cardinality(OccurrencesOf(OccurrenceKey(results[k])))
    /\ (Returned /\ ~IsBlankTerm(searchTerm)) =>
         /\ Len(returned) = Len(results)
         /\ \A i \in 1..Len(content) :
              content[i].isArray =>
                \A j \in 1..Len(content[i].content) :
                  OccurrencesReturned(content[i], cleanText(content[i].content[j]),
                    NormalizedText(cleanText(content[i].content[j]), options))

\* C11: fetchBuilderContent called with an empty apiKey never invokes
\* fetchImplementation, and when it settles it has rejected with the error
\* 'Builder.io API key is required', whatever the options are.
C11_MissingKeyRejectsWithoutRequest ==
  (entry = "fetchBuilderContent" /\ apiKey = << >>)
    => /\ fetchCalls = << >>
       /\ jsonCalls = 0
       /\ settled \in { Pending, Rejected(MissingKeyError) }
       /\ step = "done" => settled = Rejected(MissingKeyError)

C11_Witness ==
  /\ entry = "fetchBuilderContent" /\ apiKey = << >>
  /\ callOptions.fetchImplementation.given /\ callOptions.apiUrl.given
  /\ network.fetch = "responds" /\ network.ok
  /\ settled = Rejected(MissingKeyError)

\* The request of a settled call failed: fetchImplementation threw, the
\* response was not OK, or response.json() threw.
RequestFailed ==
  /\ step = "done" /\ fetchCalls # << >>
  /\ \/ network.fetch = "throws"
     \/ network.fetch = "responds" /\ ~network.ok
     \/ network.fetch = "responds" /\ network.ok /\ network.json = "throws"

FailedToFetchPrefix == "Failed to fetch content: "

\* C12: when the response is not OK, or fetchImplementation or response.json()
\* throws, fetchBuilderContent rejects with an Error whose message starts with
\* 'Failed to fetch content: '; on a non-OK response the body is never parsed,
\* no extraction runs, contentTransformer is never called and no content is
\* returned.
C12_FailedRequestRejectsWithPrefix ==
  RequestFailed
    => /\ settled.kind = "rejected"
       /\ settled.error.name = "Error"
       /\ Head(settled.error.message) = FailedToFetchPrefix
       /\ (network.fetch = "responds" /\ ~network.ok)
            => /\ jsonCalls = 0
               /\ builderResults = << >> /\ resultIdx = 0 /\ pageTexts = << >>
               /\ transformerCalls = << >>
               /\ settled.value = << >> /\ formattedContent = << >>

\* C13: createBuilderClient with an empty apiKey throws 'Builder.io API key is
\* required' and returns no client; every client that exists holds a non-empty
\* API key, and no call of its fetchTextContent fails with the missing-key
\* error.
C13_ClientsHoldAKey ==
  /\ (ViaClient /\ apiKey = << >> /\ step # "idle")
       => settled = Threw(MissingKeyError) /\ ~client.exists /\ step = "done"
  /\ client.exists => client.apiKey # << >>
  /\ (ViaClient /\ settled.kind = "rejected") => settled.error # MissingKeyError

C13_Witness ==
  /\ entry = "fetchTextContent"
  /\ client.exists /\ client.apiKey = apiKey
  /\ fetchCalls # << >> /\ Head(fetchCalls).apiKey = apiKey
  /\ settled.kind = "rejected"

C13_WitnessThrows ==
  /\ entry = "fetchTextContent" /\ apiKey = << >>
  /\ settled = Threw(MissingKeyError) /\ client = NoClient

\* The default locale a call is configured with: that of the client; a direct
\* call of fetchBuilderContent or extractBuilderContent configures none, and
\* only the key 'Default' is left to fall back to.
ConfiguredDefaultLocale == IF ViaClient THEN client.defaultLocale ELSE "Default"

\* The text of a localized value by the order of the claim: the requested
\* locale, then the configured default locale, then 'Default'.
TextByFallback(obj, locale, defaultLocale) ==
  OrElse(Get(obj, locale), OrElse(Get(obj, defaultLocale), Get(obj, "Default")))

\* What extraction yields for a localized value by the claim.
ExpectedLocalizedTexts(obj, locale, defaultLocale) ==
  IF Truthy(TextByFallback(obj, locale, defaultLocale))
    THEN << extractCleanText(TextByFallback(obj, locale, defaultLocale).str) >>
    ELSE << >>

\* C14: for a localized value, extraction yields the text for the requested
\* locale, else the text for the configured defaultLocale, else the text under
\* 'Default', else nothing.  Checked when the result just extracted is one whose
\* blocks hold one localized value.
C14_LocalizedFallbackOrder ==
  \A i \in 1..Len(LocalizedPool) :
    (step = "extracting" /\ resultIdx > 0 /\ builderResults[resultIdx] = LocalizedResult(i))
      => pageTexts = ExpectedLocalizedTexts(LocalizedPool[i], LocaleOf, ConfiguredDefaultLocale)

\* The field names of the claim: the four defaults and the caller's textFields.
FieldNameSet(textFields) ==
  { "text", "title", "textContent", "description" } \cup { textFields[i] : i \in 1..Len(textFields) }

\* The cleaned string values held under a key of the set anywhere in a value,
\* by the order of the properties.
RECURSIVE KeyedStrings(_, _)
KeyedStrings(value, keys) ==
  IF value.type # "object" THEN << >>
  ELSE Flatten([i \in 1..Len(value.entries) |->
         (IF value.entries[i].key \in keys /\ value.entries[i].value.type = "string"
            THEN << extractCleanText(value.entries[i].value.str) >>
            ELSE << >>)
         \o KeyedStrings(value.entries[i].value, keys)])

\* Whether a value holds no localized value.
RECURSIVE NothingLocalized(_)
NothingLocalized(value) ==
  value.type = "object"
    => /\ Get(value, "@type") # StringValue(LocalizedValueType)
       /\ \A i \in 1..Len(value.entries) : NothingLocalized(value.entries[i].value)

\* C15: the keys whose string values are extracted are the defaults 'text',
\* 'title', 'textContent', 'description' together with the caller's textFields:
\* the texts of a result without localized values are exactly the strings under
\* those keys, so a default field is extracted whatever textFields is and a
\* string under another key never is.
C15_DefaultsAndTextFieldsExtracted ==
  (step = "extracting" /\ resultIdx > 0 /\ NothingLocalized(builderResults[resultIdx].data))
    => pageTexts = KeyedStrings(DataOf(builderResults[resultIdx], "blocks"),
                                FieldNameSet(TextFieldsOf))

C15_Witness ==
  /\ step = "extracting" /\ resultIdx > 0
  /\ builderResults[resultIdx] = RichResult
  /\ TextFieldsOf = << "text", "label" >>
  /\ \E i \in 1..Len(pageTexts) : pageTexts[i] = << "L", "a", "b" >>
  /\ \E i \in 1..Len(pageTexts) : pageTexts[i] = << "D", "e", "e", "p" >>
  /\ \A i \in 1..Len(pageTexts) : pageTexts[i] # << "S", "u", "b" >>

\* Whether a value is a non-empty string.
NonEmptyString(v) == v.type = "string" /\ Len(v.str) > 0

\* The url of the claim: data.url when non-empty, else data.path when
\* non-empty, else '#'.
UrlByClaim(result) ==
  IF NonEmptyString(DataOf(result, "url")) THEN DataOf(result, "url").str
  ELSE IF NonEmptyString(DataOf(result, "path")) THEN DataOf(result, "path").str
  ELSE << "#" >>

\* The title of the claim: data.title, else the name, else 'Page-<id>'.
TitleByClaim(result) ==
  IF NonEmptyString(DataOf(result, "title")) THEN DataOf(result, "title").str
  ELSE IF NonEmptyString(result.name) THEN result.name.str
  ELSE << "P", "a", "g", "e", "-" >> \o result.id

\* C16: every page extractBuilderContent returns without a contentTransformer
\* has the url data.url, else data.path, else '#', and the title data.title,
\* else the result's name, else 'Page-<id>': so has the page pushed for the
\* result just extracted, and every page returned is the page of a result.
C16_PageUrlAndTitle ==
  /\ (step = "extracting" /\ resultIdx > 0 /\ pageTexts # << >>)
       => /\ formattedContent[Len(formattedContent)].url = UrlByClaim(builderResults[resultIdx])
          /\ formattedContent[Len(formattedContent)].title = TitleByClaim(builderResults[resultIdx])
  /\ (step = "done" /\ settled.kind = "returned" /\ ~HasTransformer(callOptions))
       => \A p \in 1..Len(settled.value) :
            \E r \in 1..Len(builderResults) :
              /\ settled.value[p].url = UrlByClaim(builderResults[r])
              /\ settled.value[p].title = TitleByClaim(builderResults[r])

C16_Witness ==
  /\ step = "done" /\ settled.kind = "returned" /\ ~HasTransformer(callOptions)
  /\ builderResults = << MetaResults[2] >>
  /\ Len(settled.value) = 1
  /\ settled.value[1].url = << "/", "p" >>
  /\ settled.value[1].title = << "N" >>

\* The pages of a list of raw results: for each result that has texts, in
\* order, its page.
PagesOf(rawResults, locale, textFields) ==
  Flatten([i \in 1..Len(rawResults) |->
             IF PageTexts(rawResults[i], locale, textFields) # << >>
               THEN << PageOf(rawResults[i], PageTexts(rawResults[i], locale, textFields)) >>
               ELSE << >>])

\* extractBuilderContent ran and has returned.
ExtractionReturned ==
  step = "done" /\ settled.kind = "returned" /\ network.json = "results"

\* C17: a supplied contentTransformer is called exactly once, after all pages
\* have been extracted, with the extracted page list and the unmodified raw
\* results, and what it returns is what extractBuilderContent returns; without
\* one the extracted page list is returned unchanged.
C17_TransformerCalledOnceAtTheEnd ==
  /\ step # "done" => transformerCalls = << >>
  /\ (ExtractionReturned /\ callOptions.contentTransformer.given)
       => /\ Len(transformerCalls) = 1
          /\ transformerCalls[1].content
               = PagesOf(network.results, LocaleOf, AllTextFields(TextFieldsOf))
          /\ transformerCalls[1].rawResults = network.results
          /\ builderResults = network.results
          /\ settled.value = ApplyTransformer(callOptions.contentTransformer.value,
                                              transformerCalls[1].content,
                                              transformerCalls[1].rawResults)
  /\ (ExtractionReturned /\ ~callOptions.contentTransformer.given)
       => /\ transformerCalls = << >>
          /\ settled.value = PagesOf(network.results, LocaleOf, AllTextFields(TextFieldsOf))

C17_Witness ==
  /\ ExtractionReturned
  /\ callOptions.contentTransformer = Given("appendRawIds")
  /\ Len(network.results) = 3
  /\ Len(transformerCalls) = 1
  /\ Len(transformerCalls[1].content) = 2
  /\ Len(settled.value) = 3
  /\ settled.value[3].content = << <<"1">>, <<"1", "0">>, <<"7">> >>

\* The title and the description of the claim.
TitleByClaimOf(pages, opts) ==
  (IF opts.titlePrefix.given THEN opts.titlePrefix.value ELSE << >>)
  \o (IF pages # << >> THEN pages[1].title
      ELSE IF opts.defaultTitle.given THEN opts.defaultTitle.value ELSE <<"H", "o", "m", "e">>)
  \o (IF opts.titleSuffix.given THEN opts.titleSuffix.value ELSE << >>)

DescriptionByClaimOf(pages, opts) ==
  IF pages # << >> /\ pages[1].content # << >> /\ pages[1].content[1] # << >>
    THEN pages[1].content[1]
    ELSE IF opts.defaultDescription.given THEN opts.defaultDescription.value ELSE << >>

\* C18: generateMetadataFromContent returns title = titlePrefix + T + titleSuffix,
\* T the first page's title when there is content and defaultTitle (default
\* 'Home') otherwise; description the first text of the first page when it
\* exists and is non-empty and defaultDescription (default '') otherwise; and
\* openGraph.title and openGraph.description equal to title and description.
C18_MetadataFromFirstPage ==
  metadata # << >>
    => /\ metadata.title = TitleByClaimOf(content, metadataOptions)
       /\ metadata.description = DescriptionByClaimOf(content, metadataOptions)
       /\ metadata.openGraph.title = metadata.title
       /\ metadata.openGraph.description = metadata.description

C18_Witness ==
  /\ metadata # << >>
  /\ content = << ContentPage(<<"A", "b", "o", "u", "t">>, << << >>, <<"y">> >>) >>
  /\ metadataOptions.defaultDescription.given /\ metadataOptions.titleSuffix.given
  /\ metadata.title = <<"A", "b", "o", "u", "t", " ", "|", " ", "B">>
  /\ metadata.description = <<"D", "e", "s", "c">>

\* Whether a text has a '<' that is followed later by a '>'.
HasTag(s) == \E i \in 1..Len(s) : \E j \in (i + 1)..Len(s) : s[i] = "<" /\ s[j] = ">"

\* C19: for every input string, the output of cleanText, of either cleanText,
\* contains no HTML tag: no '<' that is followed later in the output by a '>'.
C19_OutputHasNoTag ==
  cleanResult # << >> => ~HasTag(cleanResult.text)

\* The place k of a result among the matches of its text: how many of the
\* matches of that text lie at or before it.
RankIn(r, list) ==
  Cardinality({ list[i].matchPosition : i \in { j \in 1..Len(list) :
                  /\ list[j].pageTitle = r.pageTitle /\ list[j].pageUrl = r.pageUrl
                  /\ list[j].text = r.text
                  /\ list[j].matchPosition <= r.matchPosition } })

\* matchScore = k * w * 50 / max(L, 50), L the length of the cleaned text.
ScoreIs(r, k, w) ==
  r.matchScore.num * (IF Len(r.text) > 50 THEN Len(r.text) ELSE 50)
    = k * w * 50 * r.matchScore.den

\* x > y for two fractions with positive denominators.
ScoreGreater(x, y) == x.num * y.den > y.num * x.den

\* The options of the call with wholeWord left out.
SubstringOptions(o) == [o EXCEPT !.wholeWord = Omitted(FALSE)]

\* What the same call finds in substring mode, before the filter.
SubstringResults(pages, term, o) ==
  AllResults(pages, NormalizedTerm(term, SubstringOptions(o)), NullRegex, SubstringOptions(o))

\* The place of every result of a list.
RanksOf(list) == [i \in 1..Len(list) |-> RankIn(list[i], list)]

\* The k-th match gets k * w * 50 / max(L, 50); a text of at most 50 characters
\* is not discounted; for equal k a longer text never scores higher.  list is
\* what a call that returns has found before the filter, ranks the places of
\* its results.
ScoresByRank(list, ranks, w) ==
  /\ \A i \in 1..Len(list) : ScoreIs(list[i], ranks[i], w)
  /\ \A i \in 1..Len(list) :
       Len(list[i].text) <= 50
         => list[i].matchScore.num = ranks[i] * w * list[i].matchScore.den
  /\ \A i, j \in 1..Len(list) :
       (ranks[i] = ranks[j] /\ Len(list[i].text) >= Len(list[j].text))
         => ~ScoreGreater(list[i].matchScore, list[j].matchScore)

\* Every whole-word match scores higher than the substring match at the same
\* position of the same text.
WholeWordHigherAtSamePosition(whole, sub) ==
  \A i \in 1..Len(whole) : \A j \in 1..Len(sub) :
    (/\ whole[i].pageTitle = sub[j].pageTitle /\ whole[i].pageUrl = sub[j].pageUrl
     /\ whole[i].text = sub[j].text
     /\ whole[i].matchPosition = sub[j].matchPosition)
      => ScoreGreater(whole[i].matchScore, sub[j].matchScore)

\* Every whole-word match scores twice the substring match of the same text
\* that has the same place k.
WholeWordTwiceAtSameRank(whole, wholeRanks, sub, subRanks) ==
  \A i \in 1..Len(whole) : \A j \in 1..Len(sub) :
    (/\ whole[i].pageTitle = sub[j].pageTitle /\ whole[i].pageUrl = sub[j].pageUrl
     /\ whole[i].text = sub[j].text
     /\ wholeRanks[i] = subRanks[j])
      => /\ ScoreGreater(whole[i].matchScore, sub[j].matchScore)
         /\ whole[i].matchScore.num * sub[j].matchScore.den
              = 2 * sub[j].matchScore.num * whole[i].matchScore.den

\* WholeWordTwiceAtSameRank of what a whole-word call found and what the same
\* call finds in substring mode.
TwiceTheSubstringScore(whole, sub) ==
  WholeWordTwiceAtSameRank(whole, RanksOf(whole), sub, RanksOf(sub))

\* A whole-word call has returned and the same call in substring mode returns.
WholeWordReturned ==
  pc = "done" /\ wholeWord /\ ~Hangs(content, searchTerm, SubstringOptions(options))

WhitespaceNormalized(s) ==
  /\ \A i \in 1..Len(s) : s[i] \in WhiteSpaceChars => s[i] = " "
  /\ s # << >> => s[1] \notin WhiteSpaceChars /\ s[Len(s)] \notin WhiteSpaceChars
  /\ \A i \in 1..(Len(s) - 1) : ~(s[i] \in WhiteSpaceChars /\ s[i + 1] \in WhiteSpaceChars)

\* C21: for every input, the output of cleanText, of either cleanText, has no
\* leading or trailing white space and no two adjacent white space characters,
\* and every white space character in it is a single space, also when the white
\* space comes from decoded entities or is left by removed tags and markers.
C21_WhitespaceNormalized ==
  cleanResult # << >> => WhitespaceNormalized(cleanResult.text)

C21_Witness ==
  /\ cleanResult # << >> /\ cleanResult.by = "extractBuilderContent"
  /\ rawText = <<"a", "&", "#", "1", "0", ";", "a">>
  /\ cleanResult.text = <<"a", " ", "a">>

C21_WitnessDecoded ==
  /\ cleanResult # << >> /\ cleanResult.by = "textCleaner"
  /\ rawText = <<"&", "n", "b", "s", "p", ";", "a", "&", "#", "3", "2", ";">>
  /\ cleanResult.text = <<"a">>

\* The input results, by index, whose blocks yield at least one text.
YieldingResults(rawResults, locale, textFields) ==
  { i \in 1..Len(rawResults) : Len(PageTexts(rawResults[i], locale, textFields)) > 0 }

\* pages holds one page for exactly the results of the set yielding, in the
\* order of the results.
OnePagePerYieldingResult(pages, rawResults, yielding, locale, textFields) ==
  /\ Len(pages) = Cardinality(yielding)
  /\ \A i \in yielding :
       pages[Cardinality({ j \in yielding : j <= i })]
         = [title |-> PageTitle(rawResults[i]),
            url |-> PageUrl(rawResults[i]),
            content |-> PageTexts(rawResults[i], locale, textFields)]

\* C22: without a contentTransformer, extractBuilderContent returns one page for
\* exactly those input results whose data.blocks yielded at least one extracted
\* text, in the order of the input results: the output is never longer than the
\* input, every returned page has a non-empty content list, and a result without
\* blocks never produces a page.
C22_OnePagePerResultWithTexts ==
  (ExtractionReturned /\ ~callOptions.contentTransformer.given)
    => /\ OnePagePerYieldingResult(settled.value, network.results,
                                   YieldingResults(network.results, LocaleOf,
                                                   AllTextFields(TextFieldsOf)),
                                   LocaleOf, AllTextFields(TextFieldsOf))
       /\ Len(settled.value) <= Len(network.results)
       /\ \A p \in 1..Len(settled.value) : Len(settled.value[p].content) > 0
       /\ Len(settled.value)
            <= Cardinality({ i \in 1..Len(network.results) :
                               DataOf(network.results[i], "blocks").type = "object" })

C22_Witness ==
  /\ ExtractionReturned /\ ~callOptions.contentTransformer.given
  /\ network.results = << MetaResults[1], NoDataResult, RichResult >>
  /\ Len(settled.value) = 2
  /\ settled.value[2].title = << "T" >>
  /\ Len(settled.value[2].content) >= 5

\* The call fetchBuilderContent makes of fetchImplementation, for a key, an
\* apiUrl option and a fetchImplementation option.
RequestOf(key, apiUrl, fetchImplementation) ==
  [apiUrl |-> ValueOr(apiUrl, DefaultApiUrl), model |-> "page", apiKey |-> key,
   limit |-> "100", via |-> ValueOr(fetchImplementation, "fetch")]

\* The requests a settled call of fetchBuilderContent has made.
RequestsOf(key, apiUrl, fetchImplementation) ==
  IF MissingKey(key) THEN << >> ELSE << RequestOf(key, apiUrl, fetchImplementation) >>

\* A direct call of fetchBuilderContent or extractBuilderContent settles as the
\* function of its arguments says.
DirectCallsAgreeWithFunctions ==
  /\ (step = "done" /\ entry = "fetchBuilderContent")
       => /\ settled = fetchBuilderContent(apiKey, ValueOr(callOptions.locale, "us-en"),
                                           ValueOr(callOptions.textFields, << >>),
                                           callOptions.contentTransformer, network)
          /\ fetchCalls = RequestsOf(apiKey, callOptions.apiUrl, callOptions.fetchImplementation)
  /\ (step = "done" /\ entry = "extractBuilderContent")
       => settled = ReturnedValue(extractBuilderContent(network.results,
                                                        ValueOr(callOptions.locale, "us-en"),
                                                        ValueOr(callOptions.textFields, << >>),
                                                        callOptions.contentTransformer))

\* C23: a client made by createBuilderClient is a thin, stateless wrapper.  In
\* every call of a sequence of calls, client.fetchTextContent(o) settles as
\* fetchBuilderContent(apiKey, {locale, defaultLocale, apiUrl, textFields,
\* fetchImplementation} merged with o) and makes the same request, and
\* client.extractContent(r, o) returns what extractBuilderContent(r, {locale,
\* defaultLocale, textFields} merged with o) returns, with the values given at
\* creation; an apiUrl or fetchImplementation omitted at creation leaves the
\* defaults of fetchBuilderContent in force; and the outcome of a call depends
\* on nothing that an earlier call has done.
C23_ClientIsThinStatelessWrapper ==
  /\ (step = "done" /\ entry = "fetchTextContent" /\ client.exists)
       => /\ settled = fetchBuilderContent(apiKey, ValueOr(callOptions.locale, "Default"),
                                           ValueOr(callOptions.textFields, << >>),
                                           callOptions.contentTransformer, network)
          /\ fetchCalls = RequestsOf(apiKey, callOptions.apiUrl, callOptions.fetchImplementation)
          /\ ~callOptions.apiUrl.given => fetchCalls[1].apiUrl = DefaultApiUrl
          /\ ~callOptions.fetchImplementation.given => fetchCalls[1].via = "fetch"
  /\ (step = "done" /\ entry = "extractContent" /\ client.exists)
       => /\ settled = ReturnedValue(extractBuilderContent(network.results,
                                                           ValueOr(callOptions.locale, "Default"),
                                                           ValueOr(callOptions.textFields, << >>),
                                                           callOptions.contentTransformer))
          /\ fetchCalls = << >>

\* The second call on a client, fetchTextContent with a transformer and with
\* the textFields and the defaults of apiUrl and fetchImplementation, has
\* returned the pages of three results.
C23_Witness ==
  /\ step = "done" /\ callCount = 2 /\ client.exists
  /\ entry = "fetchTextContent"
  /\ callOptions.textFields.given
  /\ ~callOptions.apiUrl.given /\ ~callOptions.fetchImplementation.given
  /\ callOptions.contentTransformer.given
  /\ Len(network.results) = 3
  /\ settled.kind = "returned" /\ Len(settled.value) >= 2
  /\ Len(fetchCalls) = 1

\* The second call on a client, extractContent, has returned pages.
C23_WitnessExtract ==
  /\ step = "done" /\ callCount = 2 /\ client.exists
  /\ entry = "extractContent"
  /\ callOptions.locale.given
  /\ settled.kind = "returned" /\ Len(settled.value) >= 1

====
